---- MODULE Spec2Model ----
(***************************************************************************)
(* LanGallery-lite: the gallery index cache (GalleryIndexService,          *)
(* backend/app/gallery_service.py) and the thumbnail cache                 *)
(* (ThumbnailService, backend/app/thumb_service.py) as state machines.     *)
(*                                                                         *)
(* Every `with self._lock:` / `with self._condition:` block is one step:   *)
(* it needs the lock to be free and leaves it free (no block of the code   *)
(* contains a blocking call other than self._condition.wait(), which gives *)
(* the lock up).  A scan (_build_snapshot) is a step of its own, between   *)
(* the claim of the building flag and the publication.                     *)
(***************************************************************************)
EXTENDS Integers, Sequences, FiniteSets, TLC

\* ---------------------------------------------------------------- bounds
NThreads == 2      \* request-handling threads
NWorkers == 2      \* background build threads that can exist at once
MaxFs == 1         \* filesystem changes
TTL == 1           \* self._ttl_seconds (>= 1)
MaxCalls == 3      \* calls made to the service in one behaviour
MaxTime == TTL     \* the clock runs until the first snapshot can expire
MaxThumbCalls == 3 \* calls of ensure_thumbnail in one behaviour
MaxSrc == 1        \* modifications of the source image
MaxSize == 1       \* largest explicit `size` argument
MaxRestarts == 1   \* restarts of the service over the same cache directory
MaxPathLen == 4    \* characters of a caller-supplied relative path
MaxMtime == 2      \* modification times of the gallery's files
MaxPage == 3       \* largest page and page_size argument

Threads == 1..NThreads
Workers == 1..NWorkers

\* ------------------------------------------------------------- constants
NoOwner == 0                \* the lock is free
NoTime == -1                \* _last_built_at / _last_built_monotonic is None
EmptySnap == -1             \* _empty_snapshot()
NoSnap == -2                \* the local `snapshot` is None

WorkerId(w) == 0 - w        \* lock-owner identity of background thread w

DefaultSize == 360          \* self._default_size (AppConfig.thumb_size)
Quality == 82               \* self._quality (AppConfig.thumb_quality)
NoSize == -1                \* the `size` argument is None
RelPath == "a.jpg"          \* the image the thumbnail requests are for
NoStat == <<>>              \* source_path.stat() not yet called
NoKey == <<>>               \* no cache key computed
NoPath == <<>>              \* nothing returned

\* Paths are sequences of components, a component is a sequence of characters;
\* <<>> is the filesystem root "/".
GalleryDir == << <<"g">> >>                 \* config.gallery_dir, resolved: "/g"
OutsideFile == << <<"a">> >>                \* "/a"
InsideA == << <<"g">>, <<"a">> >>           \* "/g/a"
InsideAA == << <<"g">>, <<"a", "a">> >>     \* "/g/aa"
Nodes == {OutsideFile, InsideA, InsideAA}
Kinds == {"none", "file", "dir"}
LinkPath == << <<"g">>, <<"l">> >>          \* "/g/l"
NoLink == << <<"-">> >>                     \* no symbolic link at LinkPath
LinkTargets == {<<>>, OutsideFile}          \* it points to "/" or to "/a"
PathChars == {"a", "l", ".", "/", "\\", " "}
RelPaths == UNION {[1..n -> PathChars] : n \in 0..MaxPathLen}
NoOutcome == [kind |-> "none", value |-> <<>>]

\* The gallery: two files in the root, two in the folder "c", one in "d".  A
\* relative path is a string, a sequence of characters.
ImagePaths ==
  { <<"a">>, <<"b">>, <<"c", "/", "a">>, <<"c", "/", "b">>, <<"d", "/", "a">> }
RootDir == <<".">>
Dirs == {RootDir, <<"c">>, <<"d">>, <<"e">>}   \* "e": a folder that does not exist

VARIABLES
  \* the world
  fs,                     \* version of the gallery directory's content
  now,                    \* time.monotonic() / datetime.now()
  \* GalleryIndexService fields
  lock,                   \* owner of self._lock (the condition shares it)
  snapshot,               \* self._snapshot: the fs version it was scanned from
  initialized,            \* self._initialized
  building,               \* self._building
  last_built_at,          \* self._last_built_at
  last_built_monotonic,   \* self._last_built_monotonic
  \* request threads
  pc,                     \* position of each thread
  op,                     \* the public method the thread is in
  refresh,                \* the call's refresh argument
  l_snapshot,             \* _build_sync's local `snapshot`
  \* background build threads
  wpc,                    \* position of each worker
  w_snapshot,             \* _build_worker's local `snapshot`
  \* history: what was observed of each thread's current call
  calls,                  \* calls begun so far
  callFs,                 \* fs when the call began
  chk,                    \* what its expiry check really met: "uninit", "fresh", "stale"
  chkSnap,                \* self._snapshot at its expiry check
  claimed,                \* builds it claimed (sync) or triggered (background)
  scanned,                \* it ran its own scan
  waited,                 \* it blocked in self._condition.wait()
  result,                 \* the snapshot it returned
  preBuild,               \* index fields at the latest claim of the building flag
  \* the source image and the thumbnail cache directory
  src,                    \* the source file: [size, mtime, ver] (ver: its content)
  cache,                  \* final files <cache_key>.jpg: <<key, content, complete>>
  temp,                   \* temporary files <cache_key>.tmp: <<key, content, complete>>
  \* ThumbnailService fields
  quality,                \* self._quality
  restarts,               \* constructions of the service after the first
  locks_guard,            \* owner of self._locks_guard
  locks,                  \* keys of self._locks
  key_owner,              \* holders of the per-key locks: pairs <<key, thread>>
  \* threads inside ensure_thumbnail
  tpc,                    \* position of each thread
  t_size,                 \* target_size
  t_stat,                 \* stats: <<st_size, st_mtime_ns>>
  t_key,                  \* cache_key
  t_err,                  \* the exception the call raised
  t_result,               \* the path the call returned
  \* history of the thumbnail calls
  tcalls,                 \* calls begun so far
  returned,               \* what completed calls have returned:
                          \* <<key, path, target_size, stats, quality>>
  seen,                   \* `returned` as it was when the call began
  alone,                  \* no other call has run while this one did
  tookLock,               \* the call acquired its key's lock
  generated,              \* the call wrote and renamed a thumbnail
  encodes,                \* per key: completed encodes (temporary file written)
  fails,                  \* per key: failed generations
  \* path resolution (resolve_media_path, resolve_folder_path)
  tree,                   \* what exists at the paths of Nodes: "none", "file", "dir"
  link,                   \* target of the symbolic link <gallery_dir>/l, or NoLink
  p_op,                   \* the latest call: "none", "media", "folder"
  p_arg,                  \* its rel_path / rel_dir argument, a string
  p_candidate,            \* the resolved location (candidate)
  p_found,                \* what existed there when it was resolved
  p_out,                  \* its outcome: [kind, value]
  \* scanning and paging (_scan_images, _build_snapshot, the list_* functions)
  files,                  \* st_mtime of each path of ImagePaths, 0 when absent
  b_op,                   \* the latest call: "none", "build", "rescan", "list_images", ...
  b_args,                 \* its arguments
  b_out                   \* its outcome: [kind, value]

worldVars == <<fs, now>>
indexVars == <<lock, snapshot, initialized, building, last_built_at, last_built_monotonic>>
threadVars == <<pc, op, refresh, l_snapshot>>
workerVars == <<wpc, w_snapshot>>
obsVars == <<callFs, chk, chkSnap, claimed, scanned, waited, result>>
histVars == <<calls, obsVars, preBuild>>
indexSide == <<worldVars, indexVars, threadVars, workerVars, histVars>>
diskVars == <<src, cache, temp>>
thumbFields == <<quality, restarts, locks_guard, locks, key_owner>>
thumbThreadVars == <<tpc, t_size, t_stat, t_key, t_err, t_result>>
thumbHistVars == <<tcalls, returned, seen, alone, tookLock, generated, encodes, fails>>
thumbSide == <<diskVars, thumbFields, thumbThreadVars, thumbHistVars>>
pathSide == <<tree, link, p_op, p_arg, p_candidate, p_found, p_out>>
buildSide == <<files, b_op, b_args, b_out>>
vars == <<indexSide, thumbSide, pathSide, buildSide>>

Published == <<snapshot, initialized, last_built_at, last_built_monotonic>>

Init ==
  /\ fs = 0
  /\ now = 0
  /\ lock = NoOwner
  /\ snapshot = EmptySnap
  /\ initialized = FALSE
  /\ building = FALSE
  /\ last_built_at = NoTime
  /\ last_built_monotonic = NoTime
  /\ pc = [t \in Threads |-> "idle"]
  /\ op = [t \in Threads |-> "none"]
  /\ refresh = [t \in Threads |-> FALSE]
  /\ l_snapshot = [t \in Threads |-> NoSnap]
  /\ wpc = [w \in Workers |-> "idle"]
  /\ w_snapshot = [w \in Workers |-> NoSnap]
  /\ calls = 0
  /\ callFs = [t \in Threads |-> 0]
  /\ chk = [t \in Threads |-> "none"]
  /\ chkSnap = [t \in Threads |-> EmptySnap]
  /\ claimed = [t \in Threads |-> 0]
  /\ scanned = [t \in Threads |-> FALSE]
  /\ waited = [t \in Threads |-> FALSE]
  /\ result = [t \in Threads |-> NoSnap]
  /\ preBuild = Published
  /\ src = [size |-> 1, mtime |-> 0, ver |-> 0]
  /\ cache = {}
  /\ temp = {}
  /\ quality = Quality
  /\ restarts = 0
  /\ locks_guard = NoOwner
  /\ locks = {}
  /\ key_owner = {}
  /\ tpc = [t \in Threads |-> "idle"]
  /\ t_size = [t \in Threads |-> NoSize]
  /\ t_stat = [t \in Threads |-> NoStat]
  /\ t_key = [t \in Threads |-> NoKey]
  /\ t_err = [t \in Threads |-> "none"]
  /\ t_result = [t \in Threads |-> NoPath]
  /\ tcalls = 0
  /\ returned = {}
  /\ seen = [t \in Threads |-> {}]
  /\ alone = [t \in Threads |-> TRUE]
  /\ tookLock = [t \in Threads |-> FALSE]
  /\ generated = [t \in Threads |-> FALSE]
  /\ encodes = <<>>
  /\ fails = <<>>
  /\ tree = [n \in Nodes |-> "none"]
  /\ link = NoLink
  /\ p_op = "none"
  /\ p_arg = <<>>
  /\ p_candidate = <<>>
  /\ p_found = "none"
  /\ p_out = NoOutcome
  /\ files = [p \in ImagePaths |-> 0]
  /\ b_op = "none"
  /\ b_args = <<>>
  /\ b_out = NoOutcome

\* A thread that has returned leaves (see Leave) before anything else happens.
Returned(t) == pc[t] \in {"done", "raised"}
Settled == \A u \in Threads : ~Returned(u)

\* ------------------------------------------------------------- the world
\* A file is added, removed or touched under the gallery directory.
FsChange ==
  /\ Settled
  /\ fs < MaxFs
  /\ fs' = fs + 1
  /\ UNCHANGED <<buildSide, pathSide, thumbSide, now, indexVars, threadVars, workerVars, histVars>>

\* The clocks advance.
Tick ==
  /\ Settled
  /\ now < MaxTime
  /\ now' = now + 1
  /\ UNCHANGED <<buildSide, pathSide, thumbSide, fs, indexVars, threadVars, workerVars, histVars>>

\* ------------------------------------------------------------ index: helpers
\* `with self._lock:` can be entered by `who` (an RLock: its owner may re-enter).
CanAcquire(who) == lock = NoOwner \/ lock = who

\* Faulty variant: the age test is off by one (a snapshot younger than the TTL expires).
IsExpiredLockedOffByOne ==
  IF ~initialized THEN TRUE
  ELSE IF last_built_monotonic = NoTime THEN TRUE
  ELSE (now - last_built_monotonic) >= TTL - 1

IsExpiredLocked ==
  IF ~initialized THEN TRUE
  ELSE IF last_built_monotonic = NoTime THEN TRUE
  ELSE (now - last_built_monotonic) >= TTL

\* self._condition.notify_all(): every thread in wait() is woken; it takes the
\* lock again and re-tests the flag (the `while` of line 327).
NotifyAll(p) == [u \in Threads |-> IF p[u] = "bs_wait" THEN "bs" ELSE p[u]]

\* Where a thread goes when _build_sync / _trigger_background_build returns.
AfterBuild(t) == IF op[t] = "read" THEN "ret" ELSE "done"

\* ------------------------------------------------------------ public calls
\* A request thread enters list_folder_covers / list_folder_images / list_images
\* (r is the refresh argument), refresh_sync, warmup_async or status.  The
\* threads are interchangeable: a request is handed to the first free one.
BeginCall(t, o, r) ==
  /\ Settled
  /\ pc[t] = "idle"
  /\ \A u \in Threads : u < t => pc[u] # "idle"
  /\ calls < MaxCalls
  /\ calls' = calls + 1
  /\ op' = [op EXCEPT ![t] = o]
  /\ refresh' = [refresh EXCEPT ![t] = r]
  /\ pc' = [pc EXCEPT ![t] =
       CASE o = "read" /\ r -> "bs"
         [] o = "read" /\ ~r -> "es"
         [] o = "refresh_sync" -> "bs"
         [] o = "warmup_async" -> "tb"
         [] OTHER -> "st"]
  /\ callFs' = [callFs EXCEPT ![t] = fs]
  /\ UNCHANGED <<buildSide, pathSide, thumbSide, worldVars, indexVars, workerVars, l_snapshot,
                 chk, chkSnap, claimed, scanned, waited, result, preBuild>>

Read(t) == \E r \in BOOLEAN : BeginCall(t, "read", r)
RefreshSync(t) == BeginCall(t, "refresh_sync", FALSE)
WarmupAsync(t) == BeginCall(t, "warmup_async", FALSE)
Status(t) == BeginCall(t, "status", FALSE)

\* The call has returned ("done") or raised ("raised"): the thread goes back to
\* the pool and what was observed of its call is dropped.  The step touches
\* nothing another thread reads, so taking it at once loses no behaviour.
Leave(t) ==
  /\ Returned(t)
  /\ pc' = [pc EXCEPT ![t] = "idle"]
  /\ op' = [op EXCEPT ![t] = "none"]
  /\ refresh' = [refresh EXCEPT ![t] = FALSE]
  /\ l_snapshot' = [l_snapshot EXCEPT ![t] = NoSnap]
  /\ callFs' = [callFs EXCEPT ![t] = 0]
  /\ chk' = [chk EXCEPT ![t] = "none"]
  /\ chkSnap' = [chkSnap EXCEPT ![t] = EmptySnap]
  /\ claimed' = [claimed EXCEPT ![t] = 0]
  /\ scanned' = [scanned EXCEPT ![t] = FALSE]
  /\ waited' = [waited EXCEPT ![t] = FALSE]
  /\ result' = [result EXCEPT ![t] = NoSnap]
  /\ UNCHANGED <<buildSide, pathSide, thumbSide, worldVars, indexVars, workerVars, calls, preBuild>>

\* ------------------------------------------------------------ status()
\* Lines 260-270: the fields are read under the lock.
StatusRead(t) ==
  /\ Settled
  /\ pc[t] = "st"
  /\ CanAcquire(t)
  /\ lock' = NoOwner
  /\ pc' = [pc EXCEPT ![t] = "done"]
  /\ UNCHANGED <<buildSide, pathSide, thumbSide, worldVars, snapshot, initialized, building, last_built_at,
                 last_built_monotonic, op, refresh, l_snapshot, workerVars, histVars>>

\* ------------------------------------------------------------ _ensure_snapshot
\* Faulty variant: a reader that meets an uninitialized index while a build is
\* in flight is served the current snapshot.
EnsureCheckServesDuringWarmup(t) ==
  /\ Settled
  /\ pc[t] = "es"
  /\ CanAcquire(t)
  /\ lock' = NoOwner
  /\ chk' = [chk EXCEPT ![t] =
       IF ~initialized THEN "uninit"
       ELSE IF now - last_built_monotonic < TTL THEN "fresh" ELSE "stale"]
  /\ chkSnap' = [chkSnap EXCEPT ![t] = snapshot]
  /\ pc' = [pc EXCEPT ![t] =
       IF ~initialized THEN (IF building THEN "ret" ELSE "bs")
       ELSE IF IsExpiredLocked THEN "tb"
       ELSE "ret"]
  /\ UNCHANGED <<buildSide, pathSide, thumbSide, worldVars, snapshot, initialized, building, last_built_at,
                 last_built_monotonic, op, refresh, l_snapshot, workerVars,
                 calls, callFs, claimed, scanned, waited, result, preBuild>>

\* Faulty variant: an expired snapshot is rebuilt synchronously by the reader.
EnsureCheckSyncOnExpiry(t) ==
  /\ Settled
  /\ pc[t] = "es"
  /\ CanAcquire(t)
  /\ lock' = NoOwner
  /\ chk' = [chk EXCEPT ![t] =
       IF ~initialized THEN "uninit"
       ELSE IF now - last_built_monotonic < TTL THEN "fresh" ELSE "stale"]
  /\ chkSnap' = [chkSnap EXCEPT ![t] = snapshot]
  /\ pc' = [pc EXCEPT ![t] =
       IF ~initialized THEN "bs"
       ELSE IF IsExpiredLocked THEN "bs"
       ELSE "ret"]
  /\ UNCHANGED <<buildSide, pathSide, thumbSide, worldVars, snapshot, initialized, building, last_built_at,
                 last_built_monotonic, op, refresh, l_snapshot, workerVars,
                 calls, callFs, claimed, scanned, waited, result, preBuild>>

\* Lines 281-288: read initialized and expired under the lock, then branch.
EnsureCheck(t) ==
  /\ Settled
  /\ pc[t] = "es"
  /\ CanAcquire(t)
  /\ lock' = NoOwner
  /\ chk' = [chk EXCEPT ![t] =
       IF ~initialized THEN "uninit"
       ELSE IF now - last_built_monotonic < TTL THEN "fresh" ELSE "stale"]
  /\ chkSnap' = [chkSnap EXCEPT ![t] = snapshot]
  /\ pc' = [pc EXCEPT ![t] =
       IF ~initialized THEN "bs"
       ELSE IF IsExpiredLocked THEN "tb"
       ELSE "ret"]
  /\ UNCHANGED <<buildSide, pathSide, thumbSide, worldVars, snapshot, initialized, building, last_built_at,
                 last_built_monotonic, op, refresh, l_snapshot, workerVars,
                 calls, callFs, claimed, scanned, waited, result, preBuild>>

\* Lines 278-279 and 290-291: `with self._lock: return self._snapshot`.
ReturnSnapshot(t) ==
  /\ Settled
  /\ pc[t] = "ret"
  /\ CanAcquire(t)
  /\ lock' = NoOwner
  /\ result' = [result EXCEPT ![t] = snapshot]
  /\ pc' = [pc EXCEPT ![t] = "done"]
  /\ UNCHANGED <<buildSide, pathSide, thumbSide, worldVars, snapshot, initialized, building, last_built_at,
                 last_built_monotonic, op, refresh, l_snapshot, workerVars,
                 calls, callFs, chk, chkSnap, claimed, scanned, waited, preBuild>>

\* ------------------------------------------------------------ _build_sync
\* Faulty variant: a synchronous builder does not wait for the build in flight.
BuildSyncCheckNoWait(t) ==
  /\ Settled
  /\ pc[t] = "bs"
  /\ CanAcquire(t)
  /\ lock' = NoOwner
  /\ building' = TRUE
  /\ pc' = [pc EXCEPT ![t] = "bs_scan"]
  /\ claimed' = [claimed EXCEPT ![t] = @ + 1]
  /\ preBuild' = Published
  /\ UNCHANGED waited
  /\ UNCHANGED <<buildSide, pathSide, thumbSide, worldVars, snapshot, initialized, last_built_at,
                 last_built_monotonic, op, refresh, l_snapshot, workerVars,
                 calls, callFs, chk, chkSnap, scanned, result>>

\* Faulty variant: a builder that waited for a build returns with that build's result.
BuildSyncCheckReuse(t) ==
  /\ Settled
  /\ pc[t] = "bs"
  /\ CanAcquire(t)
  /\ lock' = NoOwner
  /\ IF building
     THEN /\ pc' = [pc EXCEPT ![t] = "bs_wait"]
          /\ waited' = [waited EXCEPT ![t] = TRUE]
          /\ UNCHANGED <<building, claimed, preBuild>>
     ELSE IF waited[t]
     THEN /\ pc' = [pc EXCEPT ![t] = AfterBuild(t)]
          /\ UNCHANGED <<building, claimed, preBuild, waited>>
     ELSE /\ building' = TRUE
          /\ pc' = [pc EXCEPT ![t] = "bs_scan"]
          /\ claimed' = [claimed EXCEPT ![t] = @ + 1]
          /\ preBuild' = Published
          /\ UNCHANGED waited
  /\ UNCHANGED <<buildSide, pathSide, thumbSide, worldVars, snapshot, initialized, last_built_at,
                 last_built_monotonic, op, refresh, l_snapshot, workerVars,
                 calls, callFs, chk, chkSnap, scanned, result>>

\* Faulty variant: the scan runs inside the `with self._condition:` block.
BuildSyncCheckHoldsLock(t) ==
  /\ Settled
  /\ pc[t] = "bs"
  /\ CanAcquire(t)
  /\ IF building
     THEN /\ pc' = [pc EXCEPT ![t] = "bs_wait"]
          /\ lock' = NoOwner
          /\ waited' = [waited EXCEPT ![t] = TRUE]
          /\ UNCHANGED <<building, claimed, preBuild>>
     ELSE /\ building' = TRUE
          /\ lock' = t
          /\ pc' = [pc EXCEPT ![t] = "bs_scan"]
          /\ claimed' = [claimed EXCEPT ![t] = @ + 1]
          /\ preBuild' = Published
          /\ UNCHANGED waited
  /\ UNCHANGED <<buildSide, pathSide, thumbSide, worldVars, snapshot, initialized, last_built_at,
                 last_built_monotonic, op, refresh, l_snapshot, workerVars,
                 calls, callFs, chk, chkSnap, scanned, result>>

\* Lines 326-329: wait while a build is in flight, else claim the flag.
BuildSyncCheck(t) ==
  /\ Settled
  /\ pc[t] = "bs"
  /\ CanAcquire(t)
  /\ lock' = NoOwner
  /\ IF building
     THEN /\ pc' = [pc EXCEPT ![t] = "bs_wait"]
          /\ waited' = [waited EXCEPT ![t] = TRUE]
          /\ UNCHANGED <<building, claimed, preBuild>>
     ELSE /\ building' = TRUE
          /\ pc' = [pc EXCEPT ![t] = "bs_scan"]
          /\ claimed' = [claimed EXCEPT ![t] = @ + 1]
          /\ preBuild' = Published
          /\ UNCHANGED waited
  /\ UNCHANGED <<buildSide, pathSide, thumbSide, worldVars, snapshot, initialized, last_built_at,
                 last_built_monotonic, op, refresh, l_snapshot, workerVars,
                 calls, callFs, chk, chkSnap, scanned, result>>

\* Line 333: _build_snapshot returns a snapshot of the directory, or raises.
BuildSyncScan(t) ==
  /\ Settled
  /\ pc[t] = "bs_scan"
  /\ \E ok \in BOOLEAN :
       l_snapshot' = [l_snapshot EXCEPT ![t] = IF ok THEN fs ELSE NoSnap]
  /\ scanned' = [scanned EXCEPT ![t] = TRUE]
  /\ pc' = [pc EXCEPT ![t] = "bs_fin"]
  /\ UNCHANGED <<buildSide, pathSide, thumbSide, worldVars, indexVars, op, refresh, workerVars,
                 calls, callFs, chk, chkSnap, claimed, waited, result, preBuild>>

\* Faulty variant: the snapshot is swapped in without the timestamps.
BuildSyncPublishSnapshotOnly(t) ==
  /\ Settled
  /\ pc[t] = "bs_fin"
  /\ CanAcquire(t)
  /\ IF l_snapshot[t] # NoSnap
     THEN /\ snapshot' = l_snapshot[t]
          /\ initialized' = TRUE
          /\ UNCHANGED <<last_built_at, last_built_monotonic>>
     ELSE UNCHANGED <<snapshot, initialized, last_built_at, last_built_monotonic>>
  /\ building' = FALSE
  /\ lock' = NoOwner
  /\ pc' = [NotifyAll(pc) EXCEPT ![t] =
       IF l_snapshot[t] = NoSnap THEN "raised" ELSE AfterBuild(t)]
  /\ UNCHANGED <<buildSide, pathSide, thumbSide, worldVars, op, refresh, l_snapshot, workerVars, histVars>>

\* Faulty variant: no `finally`: a scan that raises leaves the flag set.
BuildSyncPublishNoFinally(t) ==
  /\ Settled
  /\ pc[t] = "bs_fin"
  /\ CanAcquire(t)
  /\ IF l_snapshot[t] # NoSnap
     THEN /\ snapshot' = l_snapshot[t]
          /\ initialized' = TRUE
          /\ last_built_at' = now
          /\ last_built_monotonic' = now
          /\ building' = FALSE
          /\ pc' = [NotifyAll(pc) EXCEPT ![t] = AfterBuild(t)]
     ELSE /\ pc' = [pc EXCEPT ![t] = "raised"]
          /\ UNCHANGED <<snapshot, initialized, last_built_at, last_built_monotonic,
                         building>>
  /\ lock' = NoOwner
  /\ UNCHANGED <<buildSide, pathSide, thumbSide, worldVars, op, refresh, l_snapshot, workerVars, histVars>>

\* Lines 334-342: publish if the scan succeeded, clear the flag, notify; the
\* exception of a failed scan then propagates to the caller.
BuildSyncPublish(t) ==
  /\ Settled
  /\ pc[t] = "bs_fin"
  /\ CanAcquire(t)
  /\ IF l_snapshot[t] # NoSnap
     THEN /\ snapshot' = l_snapshot[t]
          /\ initialized' = TRUE
          /\ last_built_at' = now
          /\ last_built_monotonic' = now
     ELSE UNCHANGED <<snapshot, initialized, last_built_at, last_built_monotonic>>
  /\ building' = FALSE
  /\ lock' = NoOwner
  /\ pc' = [NotifyAll(pc) EXCEPT ![t] =
       IF l_snapshot[t] = NoSnap THEN "raised" ELSE AfterBuild(t)]
  /\ UNCHANGED <<buildSide, pathSide, thumbSide, worldVars, op, refresh, l_snapshot, workerVars, histVars>>

\* ------------------------------------------------------------ _trigger_background_build
\* Faulty variant: a trigger that finds a build in flight waits for it.
TriggerCheckWaits(t) ==
  /\ Settled
  /\ pc[t] = "tb"
  /\ CanAcquire(t)
  /\ lock' = NoOwner
  /\ IF building
     THEN /\ pc' = [pc EXCEPT ![t] = "bs_wait"]
          /\ waited' = [waited EXCEPT ![t] = TRUE]
          /\ UNCHANGED <<building, claimed, preBuild>>
     ELSE /\ building' = TRUE
          /\ pc' = [pc EXCEPT ![t] = "tb_start"]
          /\ claimed' = [claimed EXCEPT ![t] = @ + 1]
          /\ preBuild' = Published
          /\ UNCHANGED waited
  /\ UNCHANGED <<buildSide, pathSide, thumbSide, worldVars, snapshot, initialized, last_built_at,
                 last_built_monotonic, op, refresh, l_snapshot, workerVars,
                 calls, callFs, chk, chkSnap, scanned, result>>

\* Faulty variant: the flag is not tested before it is claimed.
TriggerCheckNoTest(t) ==
  /\ Settled
  /\ pc[t] = "tb"
  /\ CanAcquire(t)
  /\ lock' = NoOwner
  /\ building' = TRUE
  /\ pc' = [pc EXCEPT ![t] = "tb_start"]
  /\ claimed' = [claimed EXCEPT ![t] = @ + 1]
  /\ preBuild' = Published
  /\ UNCHANGED <<buildSide, pathSide, thumbSide, worldVars, snapshot, initialized, last_built_at,
                 last_built_monotonic, op, refresh, l_snapshot, workerVars,
                 calls, callFs, chk, chkSnap, scanned, waited, result>>

\* Lines 301-306 (both callers pass force=True).
TriggerCheck(t) ==
  /\ Settled
  /\ pc[t] = "tb"
  /\ CanAcquire(t)
  /\ lock' = NoOwner
  /\ IF building
     THEN /\ pc' = [pc EXCEPT ![t] = AfterBuild(t)]
          /\ UNCHANGED <<building, claimed, preBuild>>
     ELSE /\ building' = TRUE
          /\ pc' = [pc EXCEPT ![t] = "tb_start"]
          /\ claimed' = [claimed EXCEPT ![t] = @ + 1]
          /\ preBuild' = Published
  /\ UNCHANGED <<buildSide, pathSide, thumbSide, worldVars, snapshot, initialized, last_built_at,
                 last_built_monotonic, op, refresh, l_snapshot, workerVars,
                 calls, callFs, chk, chkSnap, scanned, waited, result>>

\* Lines 308-309: thread.start() of a new _build_worker thread.
FreeWorker ==
  CHOOSE w \in Workers : wpc[w] = "idle" /\ \A v \in Workers : wpc[v] = "idle" => w <= v

TriggerStart(t) ==
  /\ Settled
  /\ pc[t] = "tb_start"
  /\ \E w \in Workers : wpc[w] = "idle"
  /\ wpc' = [wpc EXCEPT ![FreeWorker] = "scan"]
  /\ w_snapshot' = [w_snapshot EXCEPT ![FreeWorker] = NoSnap]
  /\ pc' = [pc EXCEPT ![t] = AfterBuild(t)]
  /\ UNCHANGED <<buildSide, pathSide, thumbSide, worldVars, indexVars, op, refresh, l_snapshot, histVars>>

\* ------------------------------------------------------------ _build_worker
\* Line 314.
WorkerScan(w) ==
  /\ Settled
  /\ wpc[w] = "scan"
  /\ \E ok \in BOOLEAN :
       w_snapshot' = [w_snapshot EXCEPT ![w] = IF ok THEN fs ELSE NoSnap]
  /\ wpc' = [wpc EXCEPT ![w] = "fin"]
  /\ UNCHANGED <<buildSide, pathSide, thumbSide, worldVars, indexVars, threadVars, histVars>>

\* Faulty variant: the failure of a background build is handed to the waiting builders.
WorkerPublishRaisesToWaiters(w) ==
  /\ Settled
  /\ wpc[w] = "fin"
  /\ CanAcquire(WorkerId(w))
  /\ IF w_snapshot[w] # NoSnap
     THEN /\ snapshot' = w_snapshot[w]
          /\ initialized' = TRUE
          /\ last_built_at' = now
          /\ last_built_monotonic' = now
          /\ pc' = NotifyAll(pc)
     ELSE /\ pc' = [u \in Threads |-> IF pc[u] = "bs_wait" THEN "raised" ELSE pc[u]]
          /\ UNCHANGED <<snapshot, initialized, last_built_at, last_built_monotonic>>
  /\ building' = FALSE
  /\ lock' = NoOwner
  /\ wpc' = [wpc EXCEPT ![w] = "idle"]
  /\ w_snapshot' = [w_snapshot EXCEPT ![w] = NoSnap]
  /\ UNCHANGED <<buildSide, pathSide, thumbSide, worldVars, op, refresh, l_snapshot, histVars>>

\* Faulty variant: the background build ends without notify_all().
WorkerPublishNoNotify(w) ==
  /\ Settled
  /\ wpc[w] = "fin"
  /\ CanAcquire(WorkerId(w))
  /\ IF w_snapshot[w] # NoSnap
     THEN /\ snapshot' = w_snapshot[w]
          /\ initialized' = TRUE
          /\ last_built_at' = now
          /\ last_built_monotonic' = now
     ELSE UNCHANGED <<snapshot, initialized, last_built_at, last_built_monotonic>>
  /\ building' = FALSE
  /\ lock' = NoOwner
  /\ pc' = pc
  /\ wpc' = [wpc EXCEPT ![w] = "idle"]
  /\ w_snapshot' = [w_snapshot EXCEPT ![w] = NoSnap]
  /\ UNCHANGED <<buildSide, pathSide, thumbSide, worldVars, op, refresh, l_snapshot, histVars>>

\* Lines 315-323; a failed scan's exception dies with the background thread.
WorkerPublish(w) ==
  /\ Settled
  /\ wpc[w] = "fin"
  /\ CanAcquire(WorkerId(w))
  /\ IF w_snapshot[w] # NoSnap
     THEN /\ snapshot' = w_snapshot[w]
          /\ initialized' = TRUE
          /\ last_built_at' = now
          /\ last_built_monotonic' = now
     ELSE UNCHANGED <<snapshot, initialized, last_built_at, last_built_monotonic>>
  /\ building' = FALSE
  /\ lock' = NoOwner
  /\ pc' = NotifyAll(pc)
  /\ wpc' = [wpc EXCEPT ![w] = "idle"]
  /\ w_snapshot' = [w_snapshot EXCEPT ![w] = NoSnap]
  /\ UNCHANGED <<buildSide, pathSide, thumbSide, worldVars, op, refresh, l_snapshot, histVars>>

\* ------------------------------------------------------------ specification
Next ==
  \/ FsChange
  \/ Tick
  \/ \E t \in Threads :
       \/ Read(t)
       \/ RefreshSync(t)
       \/ WarmupAsync(t)
       \/ Status(t)
       \/ Leave(t)
       \/ StatusRead(t)
       \/ EnsureCheck(t)
       \/ ReturnSnapshot(t)
       \/ BuildSyncCheck(t)
       \/ BuildSyncScan(t)
       \/ BuildSyncPublish(t)
       \/ TriggerCheck(t)
       \/ TriggerStart(t)
  \/ \E w \in Workers :
       \/ WorkerScan(w)
       \/ WorkerPublish(w)

Spec == Init /\ [][Next]_vars

\* A request thread that can take a step of the call it is in takes it, and so
\* does a background thread (the threads are scheduled by the operating
\* system, and every scan ends).  Nothing obliges a request to be made, the
\* clock to advance or the directory to change.
ThreadStep(t) ==
  \/ Leave(t)
  \/ StatusRead(t)
  \/ EnsureCheck(t)
  \/ ReturnSnapshot(t)
  \/ BuildSyncCheck(t)
  \/ BuildSyncScan(t)
  \/ BuildSyncPublish(t)
  \/ TriggerCheck(t)
  \/ TriggerStart(t)

WorkerStep(w) == WorkerScan(w) \/ WorkerPublish(w)

SpecLive ==
  /\ Spec
  /\ \A t \in Threads : WF_vars(ThreadStep(t))
  /\ \A w \in Workers : WF_vars(WorkerStep(w))


\* ------------------------------------------------------------ thumbnails
\* thumb_service.py.  Every system call (stat, exists, mkdir, the decode and
\* save, the rename) is one step; a call that fails takes the exception path
\* of the code in the same step.
ThumbReturned(t) == tpc[t] \in {"t_done", "t_raised"}
ThumbSettled == \A u \in Threads : ~ThumbReturned(u)

\* Lines 86-91: the SHA-256 of "rel|size|quality|source_size|mtime_ns".  The
\* digest is modelled by its payload: distinct payloads give distinct keys.
DigitChar == <<"0", "1", "2", "3", "4", "5", "6", "7", "8", "9">>

\* str(n) of a natural number, one character per element.
RECURSIVE Digits(_)
Digits(n) ==
  IF n < 10 THEN <<DigitChar[n + 1]>>
            ELSE Digits(n \div 10) \o <<DigitChar[(n % 10) + 1]>>

\* Faulty variant: the modification time is left out of the payload.
BuildCacheKeyNoMtime(rel_path, size, q, source_size, source_mtime_ns) ==
  <<rel_path, "|">> \o Digits(size) \o <<"|">> \o Digits(q)
     \o <<"|">> \o Digits(source_size)

BuildCacheKey(rel_path, size, q, source_size, source_mtime_ns) ==
  <<rel_path, "|">> \o Digits(size) \o <<"|">> \o Digits(q)
     \o <<"|">> \o Digits(source_size) \o <<"|">> \o Digits(source_mtime_ns)

\* Line 46: cache_dir / cache_key[:2] / "<cache_key>.jpg".
CachePath(k) == <<"jpg", k>>

\* Line 57: cache_path.with_suffix(".tmp").
TempPath(k) == <<"tmp", k>>

\* cache_path.exists()
CacheExists(k) == \E f \in cache : f[1] = k

Count(f, k) == IF k \in DOMAIN f THEN f[k] ELSE 0
Bump(f, k) == [x \in DOMAIN f \cup {k} |-> IF x = k THEN Count(f, k) + 1 ELSE f[x]]

SizeArgs == {NoSize} \cup 0..MaxSize

\* Another process rewrites the source image: new content, and a new size, a
\* new modification time, or both.
SourceModify ==
  /\ ThumbSettled
  /\ src.ver < MaxSrc
  /\ \E ds \in 0..1, dm \in 0..1 :
       /\ ds + dm > 0
       /\ src' = [size |-> src.size + ds, mtime |-> src.mtime + dm, ver |-> src.ver + 1]
  /\ UNCHANGED <<buildSide, pathSide, indexSide, cache, temp, thumbFields, thumbThreadVars, thumbHistVars>>

\* Lines 16-21 (main.py builds the service from the configuration): the server
\* is started again, with another thumb_quality and the same cache directory.
Restart ==
  /\ ThumbSettled
  /\ \A t \in Threads : tpc[t] = "idle"
  /\ restarts < MaxRestarts
  /\ restarts' = restarts + 1
  /\ \E q \in {Quality, Quality + 1} : q # quality /\ quality' = q
  /\ locks_guard' = NoOwner
  /\ locks' = {}
  /\ key_owner' = {}
  /\ UNCHANGED <<buildSide, pathSide, indexSide, diskVars, thumbThreadVars, thumbHistVars>>

\* The exception leaves the call.
ThumbRaise(t, kind) ==
  /\ tpc' = [tpc EXCEPT ![t] = "t_raised"]
  /\ t_err' = [t_err EXCEPT ![t] = kind]

\* Lines 34-36: the size is resolved and checked.
EnsureThumbnail(t, size) ==
  /\ ThumbSettled
  /\ tpc[t] = "idle"
  /\ \A u \in Threads : u < t => tpc[u] # "idle"
  /\ tcalls < MaxThumbCalls
  /\ tcalls' = tcalls + 1
  /\ seen' = [seen EXCEPT ![t] = returned]
  /\ alone' = [u \in Threads |->
                 IF u = t THEN \A v \in Threads \ {t} : tpc[v] = "idle"
                          ELSE tpc[u] = "idle"]
  /\ LET target_size == IF size # NoSize THEN size ELSE DefaultSize IN
       /\ t_size' = [t_size EXCEPT ![t] = target_size]
       /\ IF target_size < 1
            THEN ThumbRaise(t, "ThumbnailBuildError")
            ELSE /\ tpc' = [tpc EXCEPT ![t] = "stat"]
                 /\ UNCHANGED t_err
  /\ UNCHANGED <<buildSide, pathSide, indexSide, diskVars, thumbFields, t_stat, t_key, t_result,
                 returned, tookLock, generated, encodes, fails>>

\* Lines 38-46: source_path.stat() and the cache key.  stat() is outside every
\* try block: its OSError leaves the call as it is.
ThumbStat(t) ==
  /\ ThumbSettled
  /\ tpc[t] = "stat"
  /\ \E ok \in BOOLEAN :
       IF ok
         THEN /\ t_stat' = [t_stat EXCEPT ![t] = <<src.size, src.mtime>>]
              /\ t_key' = [t_key EXCEPT ![t] =
                    BuildCacheKey(RelPath, t_size[t], quality, src.size, src.mtime)]
              /\ tpc' = [tpc EXCEPT ![t] = "exists"]
              /\ UNCHANGED t_err
         ELSE /\ ThumbRaise(t, "OSError")
              /\ UNCHANGED <<t_stat, t_key>>
  /\ UNCHANGED <<buildSide, pathSide, indexSide, diskVars, thumbFields, t_size, t_result, thumbHistVars>>

\* The call returns cache_path.
ThumbReturn(t) ==
  /\ tpc' = [tpc EXCEPT ![t] = "t_done"]
  /\ t_result' = [t_result EXCEPT ![t] = CachePath(t_key[t])]
  /\ returned' = returned \cup
       {<<t_key[t], CachePath(t_key[t]), t_size[t], t_stat[t], quality>>}

\* Lines 48-49 skipped: the call goes for the key lock at once.
ThumbFastCheckSkipped(t) ==
  /\ ThumbSettled
  /\ tpc[t] = "exists"
  /\ tpc' = [tpc EXCEPT ![t] = "getlock"]
  /\ UNCHANGED <<t_result, returned>>
  /\ UNCHANGED <<buildSide, pathSide, indexSide, diskVars, thumbFields, t_size, t_stat, t_key, t_err,
                 tcalls, seen, alone, tookLock, generated, encodes, fails>>

\* Lines 48-49: the existence check before any lock.
ThumbFastCheck(t) ==
  /\ ThumbSettled
  /\ tpc[t] = "exists"
  /\ IF CacheExists(t_key[t])
       THEN ThumbReturn(t)
       ELSE /\ tpc' = [tpc EXCEPT ![t] = "getlock"]
            /\ UNCHANGED <<t_result, returned>>
  /\ UNCHANGED <<buildSide, pathSide, indexSide, diskVars, thumbFields, t_size, t_stat, t_key, t_err,
                 tcalls, seen, alone, tookLock, generated, encodes, fails>>

\* Lines 51, 94: _get_key_lock enters `with self._locks_guard:`.
GetKeyLock(t) ==
  /\ ThumbSettled
  /\ tpc[t] = "getlock"
  /\ locks_guard = NoOwner
  /\ locks_guard' = t
  /\ tpc' = [tpc EXCEPT ![t] = "inguard"]
  /\ UNCHANGED <<buildSide, pathSide, indexSide, diskVars, quality, restarts, locks, key_owner,
                 t_size, t_stat, t_key, t_err, t_result,
                 thumbHistVars>>

\* Lines 95-100: the key's lock is looked up, created if there is none, and
\* the guard released.
GetKeyLockInsert(t) ==
  /\ ThumbSettled
  /\ tpc[t] = "inguard"
  /\ locks_guard' = NoOwner
  /\ locks' = locks \cup {t_key[t]}
  /\ tpc' = [tpc EXCEPT ![t] = "acquire"]
  /\ UNCHANGED <<buildSide, pathSide, indexSide, diskVars, quality, restarts, key_owner,
                 t_size, t_stat, t_key, t_err, t_result,
                 thumbHistVars>>

\* Faulty variant: one lock serves every key.
AcquireKeyLockGlobal(t) ==
  /\ ThumbSettled
  /\ tpc[t] = "acquire"
  /\ t_key[t] \in locks
  /\ key_owner = {}
  /\ key_owner' = key_owner \cup {<<t_key[t], t>>}
  /\ tookLock' = [tookLock EXCEPT ![t] = TRUE]
  /\ tpc' = [tpc EXCEPT ![t] = "recheck"]
  /\ UNCHANGED <<buildSide, pathSide, indexSide, diskVars, quality, restarts, locks_guard, locks,
                 t_size, t_stat, t_key, t_err,
                 t_result, tcalls, returned, seen, alone, generated, encodes, fails>>

\* Line 52: `with lock:` blocks while another thread holds the key's lock.
AcquireKeyLock(t) ==
  /\ ThumbSettled
  /\ tpc[t] = "acquire"
  /\ t_key[t] \in locks
  /\ ~\E h \in key_owner : h[1] = t_key[t]
  /\ key_owner' = key_owner \cup {<<t_key[t], t>>}
  /\ tookLock' = [tookLock EXCEPT ![t] = TRUE]
  /\ tpc' = [tpc EXCEPT ![t] = "recheck"]
  /\ UNCHANGED <<buildSide, pathSide, indexSide, diskVars, quality, restarts, locks_guard, locks,
                 t_size, t_stat, t_key, t_err,
                 t_result, tcalls, returned, seen, alone, generated, encodes, fails>>

\* Leaving the `with lock:` block.
ReleaseKeyLock(t) == key_owner' = key_owner \ {<<t_key[t], t>>}

\* Lines 53-54 skipped: the holder of the lock generates without looking.
ThumbRecheckSkipped(t) ==
  /\ ThumbSettled
  /\ tpc[t] = "recheck"
  /\ tpc' = [tpc EXCEPT ![t] = "mkdir"]
  /\ UNCHANGED <<key_owner, t_result, returned>>
  /\ UNCHANGED <<buildSide, pathSide, indexSide, diskVars, quality, restarts, locks_guard, locks,
                 t_size, t_stat, t_key, t_err,
                 tcalls, seen, alone, tookLock, generated, encodes, fails>>

\* Lines 53-54: the existence check under the key's lock.
ThumbRecheck(t) ==
  /\ ThumbSettled
  /\ tpc[t] = "recheck"
  /\ IF CacheExists(t_key[t])
       THEN /\ ReleaseKeyLock(t)
            /\ ThumbReturn(t)
       ELSE /\ tpc' = [tpc EXCEPT ![t] = "mkdir"]
            /\ UNCHANGED <<key_owner, t_result, returned>>
  /\ UNCHANGED <<buildSide, pathSide, indexSide, diskVars, quality, restarts, locks_guard, locks,
                 t_size, t_stat, t_key, t_err,
                 tcalls, seen, alone, tookLock, generated, encodes, fails>>

\* Line 56: mkdir(parents=True, exist_ok=True), inside the lock and outside
\* the try block: its OSError leaves the call as it is.
ThumbMkdir(t) ==
  /\ ThumbSettled
  /\ tpc[t] = "mkdir"
  /\ \E ok \in BOOLEAN :
       IF ok
         THEN /\ tpc' = [tpc EXCEPT ![t] = "encode"]
              /\ UNCHANGED <<key_owner, t_err>>
         ELSE /\ ReleaseKeyLock(t)
              /\ ThumbRaise(t, "OSError")
  /\ UNCHANGED <<buildSide, pathSide, indexSide, diskVars, quality, restarts, locks_guard, locks,
                 t_size, t_stat, t_key, t_result,
                 thumbHistVars>>

\* Faulty variant: the temporary file is left where it is.
ThumbFailLeavesTemp(t) ==
  /\ temp' = temp
  /\ ReleaseKeyLock(t)
  /\ ThumbRaise(t, "ThumbnailBuildError")
  /\ fails' = Bump(fails, t_key[t])

\* Lines 71-74: the temporary file is removed and ThumbnailBuildError raised.
ThumbFail(t) ==
  /\ temp' = {f \in temp : f[1] # t_key[t]}
  /\ ReleaseKeyLock(t)
  /\ ThumbRaise(t, "ThumbnailBuildError")
  /\ fails' = Bump(fails, t_key[t])

\* Faulty variant: image.save writes to cache_path itself.
ThumbEncodeInPlace(t) ==
  /\ ThumbSettled
  /\ tpc[t] = "encode"
  /\ \E ok \in BOOLEAN :
       IF ok
         THEN /\ cache' = cache \cup {<<t_key[t], src.ver, FALSE>>}
              /\ tpc' = [tpc EXCEPT ![t] = "save"]
              /\ UNCHANGED <<temp, key_owner, t_err, fails>>
         ELSE /\ ThumbFail(t)
              /\ UNCHANGED cache
  /\ UNCHANGED <<buildSide, pathSide, indexSide, src, quality, restarts, locks_guard, locks,
                 t_size, t_stat, t_key, t_result,
                 tcalls, returned, seen, alone, tookLock, generated, encodes>>

\* Lines 59-64: the source is opened, decoded and scaled, and image.save
\* creates temp_path and begins to write it.
ThumbEncode(t) ==
  /\ ThumbSettled
  /\ tpc[t] = "encode"
  /\ \E ok \in BOOLEAN :
       IF ok
         THEN /\ temp' = {f \in temp : f[1] # t_key[t]} \cup {<<t_key[t], src.ver, FALSE>>}
              /\ tpc' = [tpc EXCEPT ![t] = "save"]
              /\ UNCHANGED <<key_owner, t_err, fails>>
         ELSE ThumbFail(t)
  /\ UNCHANGED <<buildSide, pathSide, indexSide, src, cache, quality, restarts, locks_guard, locks,
                 t_size, t_stat, t_key, t_result,
                 tcalls, returned, seen, alone, tookLock, generated, encodes>>

\* Lines 64-69: image.save writes the rest of the JPEG and closes temp_path.
ThumbSave(t) ==
  /\ ThumbSettled
  /\ tpc[t] = "save"
  /\ \E ok \in BOOLEAN :
       IF ok
         THEN /\ temp' = {IF f[1] = t_key[t] THEN <<f[1], f[2], TRUE>> ELSE f : f \in temp}
              /\ encodes' = Bump(encodes, t_key[t])
              /\ tpc' = [tpc EXCEPT ![t] = "rename"]
              /\ UNCHANGED <<key_owner, t_err, fails>>
         ELSE /\ ThumbFail(t)
              /\ UNCHANGED encodes
  /\ UNCHANGED <<buildSide, pathSide, indexSide, src, cache, quality, restarts, locks_guard, locks,
                 t_size, t_stat, t_key, t_result,
                 tcalls, returned, seen, alone, tookLock, generated>>

\* Lines 70, 76: temp_path.replace(cache_path), then the lock is released and
\* cache_path returned.
ThumbRename(t) ==
  /\ ThumbSettled
  /\ tpc[t] = "rename"
  /\ \E ok \in BOOLEAN :
       IF ok
         THEN /\ cache' = {f \in cache : f[1] # t_key[t]}
                            \cup {f \in temp : f[1] = t_key[t]}
              /\ temp' = {f \in temp : f[1] # t_key[t]}
              /\ generated' = [generated EXCEPT ![t] = TRUE]
              /\ ReleaseKeyLock(t)
              /\ ThumbReturn(t)
              /\ UNCHANGED <<t_err, fails>>
         ELSE /\ ThumbFail(t)
              /\ UNCHANGED <<cache, generated, t_result, returned>>
  /\ UNCHANGED <<buildSide, pathSide, indexSide, src, quality, restarts, locks_guard, locks,
                 t_size, t_stat, t_key,
                 tcalls, seen, alone, tookLock, encodes>>

\* The caller has its path or its exception; the thread is free again.
ThumbLeave(t) ==
  /\ ThumbReturned(t)
  /\ tpc' = [tpc EXCEPT ![t] = "idle"]
  /\ t_size' = [t_size EXCEPT ![t] = NoSize]
  /\ t_stat' = [t_stat EXCEPT ![t] = NoStat]
  /\ t_key' = [t_key EXCEPT ![t] = NoKey]
  /\ t_err' = [t_err EXCEPT ![t] = "none"]
  /\ t_result' = [t_result EXCEPT ![t] = NoPath]
  /\ seen' = [seen EXCEPT ![t] = {}]
  /\ alone' = [alone EXCEPT ![t] = TRUE]
  /\ tookLock' = [tookLock EXCEPT ![t] = FALSE]
  /\ generated' = [generated EXCEPT ![t] = FALSE]
  /\ UNCHANGED <<buildSide, pathSide, indexSide, diskVars, thumbFields, tcalls, returned, encodes, fails>>

NextThumb ==
  \/ SourceModify
  \/ Restart
  \/ \E t \in Threads :
       \/ \E size \in SizeArgs : EnsureThumbnail(t, size)
       \/ ThumbStat(t)
       \/ ThumbFastCheck(t)
       \/ GetKeyLock(t)
       \/ GetKeyLockInsert(t)
       \/ AcquireKeyLock(t)
       \/ ThumbRecheck(t)
       \/ ThumbMkdir(t)
       \/ ThumbEncode(t)
       \/ ThumbSave(t)
       \/ ThumbRename(t)
       \/ ThumbLeave(t)

SpecThumb == Init /\ [][NextThumb]_vars


\* ------------------------------------------------------------ path resolution
\* resolve_media_path and resolve_folder_path (gallery_service.py 372-422) on a
\* POSIX filesystem.  An argument is a string, a sequence of characters.

\* str.replace("\\", "/")
ReplaceBackslash(str) == [i \in 1..Len(str) |-> IF str[i] = "\\" THEN "/" ELSE str[i]]

\* str.strip(ch): the leading and trailing occurrences of ch are removed.
RECURSIVE StripLeft(_, _)
StripLeft(str, ch) ==
  IF str # <<>> /\ Head(str) = ch THEN StripLeft(Tail(str), ch) ELSE str

RECURSIVE StripRight(_, _)
StripRight(str, ch) ==
  IF str # <<>> /\ str[Len(str)] = ch
    THEN StripRight(SubSeq(str, 1, Len(str) - 1), ch)
    ELSE str

Strip(str, ch) == StripRight(StripLeft(str, ch), ch)

\* The pieces of str between its "/" characters, empty pieces included.
RECURSIVE Split(_, _, _)
Split(str, piece, done) ==
  IF str = <<>> THEN Append(done, piece)
  ELSE IF Head(str) = "/" THEN Split(Tail(str), <<>>, Append(done, piece))
  ELSE Split(Tail(str), Append(piece, Head(str)), done)

IsDot(c) == c = <<".">>
IsDotDot(c) == c = <<".", ".">>
IsName(c) == c # <<>> /\ ~IsDot(c)

\* Path(str): the components of str; empty components and "." are dropped,
\* ".." is kept.
Components(str) == SelectSeq(Split(str, <<>>, <<>>), IsName)

\* gallery_dir / Path(str): an absolute right-hand side replaces the left one.
JoinPath(dir, str) ==
  IF str # <<>> /\ Head(str) = "/" THEN Components(str) ELSE dir \o Components(str)

\* Path.resolve(): the components are walked from "/"; ".." steps to the
\* parent ("/" is its own parent), the symbolic link is replaced by its target.
RECURSIVE ResolveFrom(_, _, _)
ResolveFrom(cur, rest, lnk) ==
  IF rest = <<>> THEN cur
  ELSE IF IsDotDot(Head(rest))
    THEN ResolveFrom(IF cur = <<>> THEN cur ELSE SubSeq(cur, 1, Len(cur) - 1),
                     Tail(rest), lnk)
  ELSE IF Append(cur, Head(rest)) = LinkPath /\ lnk # NoLink
    THEN ResolveFrom(lnk, Tail(rest), lnk)
  ELSE ResolveFrom(Append(cur, Head(rest)), Tail(rest), lnk)

Resolve(path) == ResolveFrom(<<>>, path, link)

\* candidate.relative_to(gallery_dir) succeeds.
IsRelativeTo(path, dir) ==
  Len(path) >= Len(dir) /\ SubSeq(path, 1, Len(dir)) = dir

\* What exists at a resolved path.
KindOf(path) ==
  IF path = <<>> \/ path = GalleryDir THEN "dir"
  ELSE IF path \in Nodes THEN tree[path]
  ELSE "none"

\* _is_supported_image: the name "a" stands for a name with an image suffix,
\* every other name for one without.
IsSupportedImage(path) == path # <<>> /\ path[Len(path)] = <<"a">>

\* Files, directories and the symbolic link come and go.
TreeChange ==
  /\ p_op = "none"
  /\ \/ \E n \in Nodes, k \in Kinds : tree' = [tree EXCEPT ![n] = k] /\ UNCHANGED link
     \/ \E l \in LinkTargets \cup {NoLink} : link' = l /\ UNCHANGED tree
  /\ UNCHANGED <<buildSide, indexSide, thumbSide, p_op, p_arg, p_candidate, p_found, p_out>>

Raise(kind) == [kind |-> kind, value |-> <<>>]
Return(value) == [kind |-> "ok", value |-> value]

\* Faulty variant: the existence check comes before the escape check.
ResolveMediaPathExistsFirst(rel_path) ==
  /\ p_op = "none"
  /\ LET normalized == ReplaceBackslash(rel_path) IN
     \E candidate \in {Resolve(JoinPath(GalleryDir, normalized))} :
     /\ p_op' = "media"
     /\ p_arg' = rel_path
     /\ p_candidate' = candidate
     /\ p_found' = KindOf(candidate)
     /\ p_out' = IF KindOf(candidate) # "file" THEN Raise("FileNotFoundError")
                 ELSE IF ~IsRelativeTo(candidate, GalleryDir)
                   THEN Raise("InvalidMediaPathError")
                 ELSE IF ~IsSupportedImage(candidate) THEN Raise("FileNotFoundError")
                 ELSE Return(candidate)
     /\ UNCHANGED <<buildSide, indexSide, thumbSide, tree, link>>

\* Lines 407-422.
ResolveMediaPath(rel_path) ==
  /\ p_op = "none"
  /\ LET normalized == ReplaceBackslash(rel_path) IN
     \E candidate \in {Resolve(JoinPath(GalleryDir, normalized))} :
     /\ p_op' = "media"
     /\ p_arg' = rel_path
     /\ p_candidate' = candidate
     /\ p_found' = KindOf(candidate)
     /\ p_out' = IF ~IsRelativeTo(candidate, GalleryDir)
                   THEN Raise("InvalidMediaPathError")
                 ELSE IF KindOf(candidate) # "file" THEN Raise("FileNotFoundError")
                 ELSE IF ~IsSupportedImage(candidate) THEN Raise("FileNotFoundError")
                 ELSE Return(candidate)
     /\ UNCHANGED <<buildSide, indexSide, thumbSide, tree, link>>

\* Lines 388-389: the path relative to gallery_dir, "." for gallery_dir itself.
RelativePosix(candidate) ==
  IF candidate = GalleryDir THEN << <<".">> >>
  ELSE SubSeq(candidate, Len(GalleryDir) + 1, Len(candidate))

\* Lines 372-389.
ResolveFolderPath(rel_dir) ==
  /\ p_op = "none"
  /\ LET stripped == Strip(Strip(ReplaceBackslash(rel_dir), " "), "/")
         normalized == IF stripped = <<>> \/ stripped = <<".">> THEN <<".">> ELSE stripped
     IN
     \E candidate \in {Resolve(JoinPath(GalleryDir, normalized))} :
     /\ p_op' = "folder"
     /\ p_arg' = rel_dir
     /\ p_candidate' = candidate
     /\ p_found' = KindOf(candidate)
     /\ p_out' = IF ~IsRelativeTo(candidate, GalleryDir)
                   THEN Raise("InvalidFolderPathError")
                 ELSE IF KindOf(candidate) # "dir" THEN Raise("FileNotFoundError")
                 ELSE Return(RelativePosix(candidate))
     /\ UNCHANGED <<buildSide, indexSide, thumbSide, tree, link>>

\* The caller has its path or its exception.
PathLeave ==
  /\ p_op # "none"
  /\ p_op' = "none"
  /\ p_arg' = <<>>
  /\ p_candidate' = <<>>
  /\ p_found' = "none"
  /\ p_out' = NoOutcome
  /\ UNCHANGED <<buildSide, indexSide, thumbSide, tree, link>>

NextPath ==
  \/ TreeChange
  \/ PathLeave
  \/ \E rel_path \in RelPaths : ResolveMediaPath(rel_path)
  \/ \E rel_dir \in RelPaths : ResolveFolderPath(rel_dir)

SpecPath == Init /\ [][NextPath]_vars


\* ------------------------------------------------------------ scan and build
\* _scan_images, _build_snapshot and the paging of list_folder_covers
\* (gallery_service.py 122-184, 217-240, 345-404).

\* ord(ch)
CharCode(ch) ==
  CASE ch = "." -> 46 [] ch = "/" -> 47 [] ch = "a" -> 97
    [] ch = "b" -> 98 [] ch = "c" -> 99 [] ch = "d" -> 100

\* str1 < str2, as Python compares strings.
RECURSIVE StrLess(_, _)
StrLess(str1, str2) ==
  IF str2 = <<>> THEN FALSE
  ELSE IF str1 = <<>> THEN TRUE
  ELSE IF Head(str1) # Head(str2) THEN CharCode(Head(str1)) < CharCode(Head(str2))
  ELSE StrLess(Tail(str1), Tail(str2))

\* Path(rel_path).name: what follows the last "/".
RECURSIVE BaseName(_)
BaseName(rel_path) ==
  IF \E i \in 1..Len(rel_path) : rel_path[i] = "/"
    THEN BaseName(Tail(rel_path))
    ELSE rel_path

\* Lines 95-97: _image_dir, the posix parent of rel_path, "." for the root.
ImageDir(rel_path) ==
  LET folder == SubSeq(rel_path, 1, Len(rel_path) - Len(BaseName(rel_path)) - 1)
  IN IF folder = <<>> \/ folder = <<".">> THEN RootDir ELSE folder

\* Lines 133-146: the record of one file.
ImageOf(rel_path) ==
  [rel_path |-> rel_path, name |-> BaseName(rel_path), mtime |-> files[rel_path]]

\* Lines 83-87: the files _iter_files can yield.
Present(recursive) ==
  {p \in ImagePaths : files[p] > 0 /\ (recursive \/ ImageDir(p) = RootDir)}

\* The orders in which rglob("*") / glob("*") can yield them: the entries of
\* one directory come together, in an order the operating system chooses.
RECURSIVE Orders(_)
Orders(S) ==
  IF S = {} THEN {<<>>}
  ELSE UNION {{<<x>> \o e : e \in Orders(S \ {x})} : x \in S}

Enumerations(recursive) ==
  {e \in Orders(Present(recursive)) :
     \A i, j, k \in 1..Len(e) :
       (i < j /\ j < k /\ ImageDir(e[i]) = ImageDir(e[k]))
         => ImageDir(e[j]) = ImageDir(e[i])}

\* list.sort(key=lambda entry: entry[0], reverse=True): stable, descending.
\* Faulty variant: the records stay in the order of the directory iteration.
InsertByMtimeUnsorted(x, sorted) ==
  Append(sorted, x)

RECURSIVE InsertByMtime(_, _)
InsertByMtime(x, sorted) ==
  IF sorted = <<>> THEN <<x>>
  ELSE IF x.mtime > Head(sorted).mtime THEN <<x>> \o sorted
  ELSE <<Head(sorted)>> \o InsertByMtime(x, Tail(sorted))

RECURSIVE SortByMtimeDesc(_)
SortByMtimeDesc(seq) ==
  IF seq = <<>> THEN <<>>
  ELSE InsertByMtime(seq[Len(seq)], SortByMtimeDesc(SubSeq(seq, 1, Len(seq) - 1)))

\* Lines 122-149: _scan_images over one enumeration of the files.
ScanImages(enum) == SortByMtimeDesc([i \in 1..Len(enum) |-> ImageOf(enum[i])])

\* Lines 158-161: the folders in the order of their first record.
RECURSIVE GroupDirs(_, _)
GroupDirs(records, dirs) ==
  IF records = <<>> THEN dirs
  ELSE LET d == ImageDir(Head(records).rel_path)
       IN GroupDirs(Tail(records),
                    IF \E i \in 1..Len(dirs) : dirs[i] = d THEN dirs ELSE Append(dirs, d))

\* Faulty variant: every group holds every record.
InDirAll(records, d) == records

InDir(records, d) == SelectSeq(records, LAMBDA r : ImageDir(r.rel_path) = d)

\* max(entries, key=...): the first of the greatest elements.
RECURSIVE MaxByMtime(_, _)
MaxByMtime(entries, best) ==
  IF entries = <<>> THEN best
  ELSE MaxByMtime(Tail(entries),
                  IF Head(entries).mtime > best.mtime THEN Head(entries) ELSE best)

\* (name1, path1) < (name2, path2), as Python compares tuples of strings.
CoverKeyLess(x, y) ==
  \/ StrLess(x.name, y.name)
  \/ x.name = y.name /\ StrLess(x.rel_path, y.rel_path)

\* Faulty variant: the cover is the first entry of the group, its newest image.
MaxByCoverKeyFirst(entries, best) ==
  best

RECURSIVE MaxByCoverKey(_, _)
MaxByCoverKey(entries, best) ==
  IF entries = <<>> THEN best
  ELSE MaxByCoverKey(Tail(entries),
                     IF CoverKeyLess(best, Head(entries)) THEN Head(entries) ELSE best)

\* Lines 165-176: the GalleryFolderCover of one group.
FolderOf(rel_dir, entries) ==
  [rel_dir |-> rel_dir,
   cover |-> MaxByCoverKey(Tail(entries), Head(entries)),
   image_count |-> Len(entries),
   latest_mtime |-> MaxByMtime(Tail(entries), Head(entries)).mtime]

\* Faulty variant: the folders are sorted by their latest mtime only.
FolderBeforeNoTieBreak(x, y) ==
  x.latest_mtime > y.latest_mtime

\* folders.sort(key=lambda item: (-item[0], item[1].rel_dir)): stable.
FolderBefore(x, y) ==
  \/ x.latest_mtime > y.latest_mtime
  \/ x.latest_mtime = y.latest_mtime /\ StrLess(x.rel_dir, y.rel_dir)

RECURSIVE InsertFolder(_, _)
InsertFolder(x, sorted) ==
  IF sorted = <<>> THEN <<x>>
  ELSE IF FolderBefore(x, Head(sorted)) THEN <<x>> \o sorted
  ELSE <<Head(sorted)>> \o InsertFolder(x, Tail(sorted))

\* Faulty variant: the folders stay in the order of their first record.
SortFoldersUnsorted(seq) ==
  seq

RECURSIVE SortFolders(_)
SortFolders(seq) ==
  IF seq = <<>> THEN <<>>
  ELSE InsertFolder(seq[Len(seq)], SortFolders(SubSeq(seq, 1, Len(seq) - 1)))

\* Lines 152-184: _build_snapshot.
BuildSnapshot(enum) ==
  LET records == ScanImages(enum)
      dirs == GroupDirs(records, <<>>)
      folders == [i \in 1..Len(dirs) |-> FolderOf(dirs[i], InDir(records, dirs[i]))]
  IN [folders_ordered |-> SortFolders(folders),
      images_by_folder |->
        [d \in {dirs[i] : i \in 1..Len(dirs)} |-> InDir(records, d)],
      images_ordered |-> records]

\* Lines 187-192: _empty_snapshot.
EmptySnapshot ==
  [folders_ordered |-> <<>>, images_by_folder |-> <<>>, images_ordered |-> <<>>]

\* Faulty variant: the pages are counted from 0.
FolderCoverPageFromZero(snap, page, page_size) ==
  LET total == Len(snap.folders_ordered)
      total_pages == IF total # 0 THEN (total + page_size - 1) \div page_size ELSE 0
      start == page * page_size
      end == start + page_size
      last == IF end < total THEN end ELSE total
  IN [items |-> IF start < total THEN SubSeq(snap.folders_ordered, start + 1, last)
                                 ELSE <<>>,
      total |-> total, page |-> page, page_size |-> page_size,
      total_pages |-> total_pages]

\* Lines 229-240 (and 357-369): the page of a snapshot.  A Python slice
\* [start:end] stops at the end of the list.
FolderCoverPage(snap, page, page_size) ==
  LET total == Len(snap.folders_ordered)
      total_pages == IF total # 0 THEN (total + page_size - 1) \div page_size ELSE 0
      start == (page - 1) * page_size
      end == start + page_size
      last == IF end < total THEN end ELSE total
  IN [items |-> IF start < total THEN SubSeq(snap.folders_ordered, start + 1, last)
                                 ELSE <<>>,
      total |-> total, page |-> page, page_size |-> page_size,
      total_pages |-> total_pages]

\* Files are added, removed and touched.
FilesChange ==
  /\ b_op = "none"
  /\ \E p \in ImagePaths, m \in 0..MaxMtime :
       /\ files[p] # m
       /\ files' = [files EXCEPT ![p] = m]
  /\ UNCHANGED <<indexSide, thumbSide, pathSide, b_op, b_args, b_out>>

\* One run of _build_snapshot (lines 152-184), as a build of the index makes it.
Build ==
  /\ b_op = "none"
  /\ \E recursive \in BOOLEAN :
       \E enum \in Enumerations(recursive) :
         /\ b_op' = "build"
         /\ b_args' = <<recursive, enum>>
         /\ b_out' = Return(BuildSnapshot(enum))
  /\ UNCHANGED <<indexSide, thumbSide, pathSide, files>>

\* The next run of _build_snapshot, the files unchanged: b_args keeps the
\* enumeration and the snapshot of the run before.
Rescan ==
  /\ b_op = "build"
  /\ \E enum \in Enumerations(b_args[1]) :
       /\ b_op' = "rescan"
       /\ b_args' = <<b_args[1], b_args[2], b_out.value, enum>>
       /\ b_out' = Return(BuildSnapshot(enum))
  /\ UNCHANGED <<indexSide, thumbSide, pathSide, files>>

\* Lines 345-347: the module's list_images, over a scan of its own.
ListImages ==
  /\ b_op = "none"
  /\ \E recursive \in BOOLEAN :
       \E enum \in Enumerations(recursive) :
         /\ b_op' = "list_images"
         /\ b_args' = <<recursive>>
         /\ b_out' = Return(BuildSnapshot(enum).images_ordered)
  /\ UNCHANGED <<indexSide, thumbSide, pathSide, files>>

\* Lines 392-404: the module's list_folder_images; resolved_dir is what
\* resolve_folder_path returned for rel_dir.
ListFolderImages(resolved_dir) ==
  /\ b_op = "none"
  /\ \E recursive \in BOOLEAN :
       \E enum \in Enumerations(recursive) :
         \E snap \in {BuildSnapshot(enum)} :
           /\ b_op' = "list_folder_images"
           /\ b_args' = <<recursive, resolved_dir>>
           /\ b_out' = IF resolved_dir \in DOMAIN snap.images_by_folder
                         THEN Return(snap.images_by_folder[resolved_dir])
                         ELSE Raise("FileNotFoundError")
  /\ UNCHANGED <<indexSide, thumbSide, pathSide, files>>

\* Lines 217-240: GalleryIndexService.list_folder_covers.  The snapshot that
\* _ensure_snapshot returns is a build of the files (which build it is, is the
\* subject of Spec); b_args keeps its folder list.
ListFolderCovers(page, page_size) ==
  /\ b_op = "none"
  /\ b_op' = "list_folder_covers"
  /\ IF page < 1 \/ page_size < 1
       THEN /\ b_args' = <<page, page_size>>
            /\ b_out' = Raise("ValueError")
       ELSE \E recursive \in BOOLEAN :
              \E enum \in Enumerations(recursive) :
                \E snap \in {BuildSnapshot(enum)} :
                  /\ b_args' = <<page, page_size, snap.folders_ordered>>
                  /\ b_out' = Return(FolderCoverPage(snap, page, page_size))
  /\ UNCHANGED <<indexSide, thumbSide, pathSide, files>>

\* The caller has its result.
BuildLeave ==
  /\ b_op # "none"
  /\ b_op' = "none"
  /\ b_args' = <<>>
  /\ b_out' = NoOutcome
  /\ UNCHANGED <<indexSide, thumbSide, pathSide, files>>

NextBuild ==
  \/ FilesChange
  \/ Build
  \/ Rescan
  \/ ListImages
  \/ \E d \in Dirs : ListFolderImages(d)
  \/ \E page \in 0..MaxPage, page_size \in 0..MaxPage : ListFolderCovers(page, page_size)
  \/ BuildLeave

SpecBuild == Init /\ [][NextBuild]_vars


\* ------------------------------------------- index: argument and path errors
\* The list_* methods of GalleryIndexService with their arguments.  They check
\* the arguments first and only then call _ensure_snapshot; what they do with
\* the snapshot they get is the subject of SpecBuild.

\* Largest page and page_size argument of the calls made to the service.
MaxPageArg == 1

\* rel_dir arguments: the root, a missing directory, the root's parent.
FolderArgs == {<<>>, <<"a">>, <<".", ".">>}

\* Faulty variant: _ensure_snapshot is called before the arguments are checked.
BeginListCallEnsuresFirst(t, r, ok) ==
  /\ Settled
  /\ pc[t] = "idle"
  /\ \A u \in Threads : u < t => pc[u] # "idle"
  /\ calls < MaxCalls
  /\ calls' = calls + 1
  /\ op' = [op EXCEPT ![t] = "read"]
  /\ refresh' = [refresh EXCEPT ![t] = r]
  /\ pc' = [pc EXCEPT ![t] = IF r THEN "bs" ELSE "es"]
  /\ callFs' = [callFs EXCEPT ![t] = fs]
  /\ UNCHANGED <<thumbSide, worldVars, indexVars, workerVars, l_snapshot,
                 chk, chkSnap, claimed, scanned, waited, result, preBuild>>

\* A request thread enters a list_* method whose arguments were found valid
\* (ok) or not: lines 223-228 and 243-244.  An exception of the checks leaves
\* the method before `self._ensure_snapshot(refresh=refresh)` is reached.
BeginListCall(t, r, ok) ==
  /\ Settled
  /\ pc[t] = "idle"
  /\ \A u \in Threads : u < t => pc[u] # "idle"
  /\ calls < MaxCalls
  /\ calls' = calls + 1
  /\ op' = [op EXCEPT ![t] = "read"]
  /\ refresh' = [refresh EXCEPT ![t] = r]
  /\ pc' = [pc EXCEPT ![t] = IF ~ok THEN "raised" ELSE IF r THEN "bs" ELSE "es"]
  /\ callFs' = [callFs EXCEPT ![t] = fs]
  /\ UNCHANGED <<thumbSide, worldVars, indexVars, workerVars, l_snapshot,
                 chk, chkSnap, claimed, scanned, waited, result, preBuild>>

\* Lines 217-228: GalleryIndexService.list_folder_covers up to its call of
\* _ensure_snapshot.
ListFolderCoversCall(t, page, page_size, r) ==
  /\ b_op = "none"
  /\ BeginListCall(t, r, ~(page < 1) /\ ~(page_size < 1))
  /\ b_op' = "list_folder_covers"
  /\ b_args' = <<page, page_size>>
  /\ b_out' = IF page < 1 \/ page_size < 1 THEN Raise("ValueError") ELSE NoOutcome
  /\ UNCHANGED <<pathSide, files>>

\* Lines 242-244: GalleryIndexService.list_folder_images up to its call of
\* _ensure_snapshot; resolve_folder_path (lines 372-389) looks at the
\* directory tree.
ListFolderImagesCall(t, rel_dir, r) ==
  /\ p_op = "none"
  /\ LET stripped == Strip(Strip(ReplaceBackslash(rel_dir), " "), "/")
         normalized == IF stripped = <<>> \/ stripped = <<".">> THEN <<".">> ELSE stripped
     IN
     \E candidate \in {Resolve(JoinPath(GalleryDir, normalized))} :
     /\ p_op' = "folder"
     /\ p_arg' = rel_dir
     /\ p_candidate' = candidate
     /\ p_found' = KindOf(candidate)
     /\ p_out' = IF ~IsRelativeTo(candidate, GalleryDir)
                   THEN Raise("InvalidFolderPathError")
                 ELSE IF KindOf(candidate) # "dir" THEN Raise("FileNotFoundError")
                 ELSE Return(RelativePosix(candidate))
     /\ BeginListCall(t, r, IsRelativeTo(candidate, GalleryDir) /\ KindOf(candidate) = "dir")
  /\ UNCHANGED <<buildSide, tree, link>>

NextArgs ==
  \/ Next
  \/ PathLeave
  \/ BuildLeave
  \/ \E t \in Threads, r \in BOOLEAN :
       \/ \E page \in 0..MaxPageArg, page_size \in 0..MaxPageArg :
            ListFolderCoversCall(t, page, page_size, r)
       \/ \E rel_dir \in FolderArgs : ListFolderImagesCall(t, rel_dir, r)

SpecArgs == Init /\ [][NextArgs]_vars


\* ------------------------------------------------------------ index: claims
SyncBuilders == {t \in Threads : pc[t] \in {"bs_scan", "bs_fin"}}
Starters == {t \in Threads : pc[t] = "tb_start"}
BackgroundBuilders == {w \in Workers : wpc[w] # "idle"}
BuildsInProgress ==
  Cardinality(SyncBuilders) + Cardinality(Starters) + Cardinality(BackgroundBuilders)

\* The call went through _build_sync: refresh_sync, a read with refresh=True, or
\* a read that found the index uninitialized.
IsSyncCall(t) ==
  \/ op[t] = "refresh_sync"
  \/ op[t] = "read" /\ (refresh[t] \/ chk[t] = "uninit")

\* C1: whatever the interleaving of reads, refresh_sync and warmup_async, at
\* most one build (claimed by a synchronous builder, claimed for a background
\* thread not yet started, or run by a background thread) is in progress, and
\* the building flag is true exactly when there is one.
C1_AtMostOneBuild ==
  /\ BuildsInProgress <= 1
  /\ building <=> BuildsInProgress = 1

\* A background build is scanning while a synchronous builder waits for it.
C1_Witness ==
  \E w \in Workers, t \in Threads : wpc[w] = "scan" /\ pc[t] = "bs_wait" /\ building

\* C2: a read with refresh=True that returns normally returns a snapshot scanned
\* after the call began: it reflects every filesystem change made before the call.
C2_RefreshReadIsFresh ==
  \A t \in Threads :
    pc[t] = "done" /\ op[t] = "read" /\ refresh[t] => result[t] >= callFs[t]

\* A refresh read that began after a filesystem change, waited for a build in
\* flight and returned.
C2_Witness ==
  \E t \in Threads :
    /\ pc[t] = "done" /\ op[t] = "read" /\ refresh[t]
    /\ callFs[t] >= 1 /\ waited[t] /\ result[t] = callFs[t]

\* C3: a read without refresh whose check meets an initialized index younger
\* than the TTL claims and triggers no build, does not wait, and returns the
\* snapshot that is current when it returns (changes of the filesystem made
\* since that snapshot was built are not in it).
C3_FreshReadServesCache ==
  \A t \in Threads :
    op[t] = "read" /\ ~refresh[t] /\ chk[t] = "fresh" =>
      /\ claimed[t] = 0 /\ ~scanned[t] /\ ~waited[t]
      /\ pc[t] \in {"ret", "done"}
      /\ pc[t] = "done" => result[t] = snapshot /\ result[t] >= chkSnap[t]

\* A fresh read returned a snapshot older than the filesystem.
C3_Witness ==
  \E t \in Threads :
    /\ pc[t] = "done" /\ op[t] = "read" /\ ~refresh[t] /\ chk[t] = "fresh"
    /\ result[t] # EmptySnap /\ result[t] < fs

\* C4 as claimed: a read without refresh whose check meets an expired snapshot
\* and triggers the rebuild returns the snapshot it met at the check, not the
\* one the rebuild it triggered produces.
C4_StaleReadReturnsPrior ==
  \A t \in Threads :
    pc[t] = "done" /\ op[t] = "read" /\ chk[t] = "stale" /\ claimed[t] = 1 =>
      result[t] = chkSnap[t]

\* C4 amended: a read without refresh whose check meets an expired snapshot
\* runs no scan of its own and never waits; it triggers at most one background
\* build (none if one is in flight) and returns the snapshot that is current
\* when it returns, which is the one it met at the check or a newer one.
C4_StaleReadDoesNotWait ==
  \A t \in Threads :
    op[t] = "read" /\ ~refresh[t] /\ chk[t] = "stale" =>
      /\ ~scanned[t] /\ ~waited[t] /\ claimed[t] <= 1
      /\ pc[t] \in {"tb", "tb_start", "ret", "done"}
      /\ pc[t] = "tb_start" => claimed[t] = 1 /\ building
      /\ pc[t] = "done" => result[t] = snapshot /\ result[t] >= chkSnap[t]

\* A stale read triggered the rebuild and returned the stale snapshot, which the
\* filesystem has moved past.
C4_Witness ==
  \E t \in Threads :
    /\ pc[t] = "done" /\ op[t] = "read" /\ chk[t] = "stale" /\ claimed[t] = 1
    /\ result[t] = chkSnap[t] /\ result[t] < fs /\ building

\* C5: a call that went through _build_sync has, when _build_sync returns or
\* raises, claimed exactly one build and run its own scan, also when it had to
\* wait for a build in flight; and a builder waits only while a build is in flight.
C5_SyncBuildAlwaysScans ==
  \A t \in Threads :
    /\ IsSyncCall(t) /\ pc[t] \in {"ret", "done", "raised"} =>
         scanned[t] /\ claimed[t] = 1
    /\ pc[t] = "bs_wait" => building

\* A refresh_sync that waited for another build returned after its own scan.
C5_Witness ==
  \E t \in Threads :
    pc[t] = "done" /\ op[t] = "refresh_sync" /\ waited[t] /\ scanned[t]

\* C6: the step that ends a failed build (synchronous or background) leaves the
\* snapshot, the initialized flag and both timestamps as they were when the
\* build was claimed, clears the building flag, frees the lock and leaves no
\* builder waiting.
SyncBuildFails(t) == pc[t] = "bs_fin" /\ l_snapshot[t] = NoSnap /\ pc'[t] # "bs_fin"
WorkerBuildFails(w) == wpc[w] = "fin" /\ w_snapshot[w] = NoSnap /\ wpc'[w] # "fin"
BuildFails == (\E t \in Threads : SyncBuildFails(t)) \/ (\E w \in Workers : WorkerBuildFails(w))

C6_FailedBuildKeepsSnapshot ==
  [][BuildFails =>
       /\ Published' = Published
       /\ Published' = preBuild
       /\ building' = FALSE
       /\ lock' = NoOwner
       /\ \A u \in Threads : pc'[u] # "bs_wait"]_vars

\* A synchronous build failed on an initialized index and woke a waiting builder.
C6_Witness ==
  \E t, u \in Threads :
    /\ pc[t] = "raised" /\ initialized /\ ~building
    /\ pc[u] = "bs" /\ waited[u]

\* C7: a call raises a build failure only if its own synchronous scan failed.
C7_OnlyOwnSyncFailureRaises ==
  \A t \in Threads :
    pc[t] = "raised" => IsSyncCall(t) /\ scanned[t] /\ l_snapshot[t] = NoSnap

\* A builder that waited for a build which failed (the index is still
\* uninitialized) went on to its own scan.
C7_Witness ==
  \E t \in Threads :
    waited[t] /\ pc[t] = "bs_scan" /\ ~initialized /\ snapshot = EmptySnap

\* C8: no thread holds the index lock while a build is claimed, scanning or
\* waited for, so a status() call can always take the lock.
C8_StatusNeverBlocks ==
  /\ BuildsInProgress > 0 \/ (\E t \in Threads : pc[t] = "bs_wait") => lock = NoOwner
  /\ \A t \in Threads : pc[t] = "st" => CanAcquire(t)

\* status() is called while a build is scanning and a builder waits.
C8_Witness ==
  \E t, u \in Threads : pc[t] = "st" /\ pc[u] = "bs_wait" /\ BuildsInProgress = 1


\* ------------------------------------------------------------ thumbnails: claims
\* C9: calls of ensure_thumbnail that run concurrently for one fingerprint,
\* with no cache file present and no generation failing, lead to exactly one
\* decode+encode+rename for that fingerprint, and every call that returns
\* returns the fingerprint's one cache path, at which the file exists.
C9_OneGenerationPerFingerprint ==
  /\ \A k \in DOMAIN encodes : Count(fails, k) = 0 => encodes[k] = 1
  /\ \A r \in returned : r[2] = CachePath(r[1])
  /\ \A t \in Threads :
       tpc[t] = "t_done" =>
         /\ t_result[t] = CachePath(t_key[t])
         /\ CacheExists(t_key[t])
         /\ Count(fails, t_key[t]) = 0 => Count(encodes, t_key[t]) = 1

\* A call that found no cache file, waited for the key's lock and returned
\* without generating: another call generated the file meanwhile.
C9_Witness ==
  \E t \in Threads :
    /\ tpc[t] = "t_done"
    /\ tookLock[t]
    /\ ~generated[t]
    /\ Count(fails, t_key[t]) = 0
    /\ Count(encodes, t_key[t]) = 1

\* C10: a call of ensure_thumbnail that begins after a call with the same
\* rel_path and size has returned, the source unchanged (so the fingerprint is
\* the same), returns the same path as that call, generates nothing and
\* acquires no per-fingerprint lock.
C10_SecondCallIsCacheHit ==
  \A t \in Threads :
    \A r \in seen[t] :
      (tpc[t] = "t_done" /\ r[1] = t_key[t]) =>
        /\ t_result[t] = r[2]
        /\ ~tookLock[t]
        /\ ~generated[t]

C10_Witness ==
  \E t \in Threads :
    /\ tpc[t] = "t_done"
    /\ \E r \in seen[t] : r[1] = t_key[t] /\ t_result[t] = r[2]

\* C11: a call of ensure_thumbnail whose target size, source size, source
\* modification time or quality differs from those of a call that returned
\* before it began computes another fingerprint and returns another path than
\* that call; the file at its path was generated for its own fingerprint, by
\* the call itself unless another call for the same fingerprint has done it
\* (one that returned before, or one that ran at the same time).
C11_ChangedSourceNewThumbnail ==
  \A t \in Threads :
    \A r \in seen[t] :
      (tpc[t] = "t_done" /\ <<r[3], r[4], r[5]>> # <<t_size[t], t_stat[t], quality>>) =>
        /\ r[1] # t_key[t]
        /\ r[2] # t_result[t]
        /\ CacheExists(t_key[t])
        /\ Count(encodes, t_key[t]) >= 1
        /\ (alone[t] /\ \A r2 \in seen[t] : r2[1] # t_key[t]) => generated[t]

\* The source changed after a call had returned, and the next call with the
\* same size generated a thumbnail of its own.
C11_Witness ==
  \E t \in Threads :
    /\ tpc[t] = "t_done"
    /\ generated[t]
    /\ \E r \in seen[t] : r[3] = t_size[t] /\ r[5] = quality /\ r[4] # t_stat[t]

\* C12: every call of ensure_thumbnail that fails raises ThumbnailBuildError
\* and no other kind of error, whatever failed: the size check, the stat of
\* the source, the shard directory, the decode, the save or the rename.
C12_FailuresAreThumbnailBuildError ==
  \A t \in Threads : tpc[t] = "t_raised" => t_err[t] = "ThumbnailBuildError"

\* ------------------------------------------------------------ paths: claims
\* C13: a call of resolve_media_path or resolve_folder_path whose argument
\* resolves to a location outside the gallery root fails with the invalid-path
\* error of the function, whether or not anything exists at that location; a
\* path that is returned lies under the root.
C13_EscapeIsInvalidPath ==
  /\ (p_op = "media" /\ ~IsRelativeTo(p_candidate, GalleryDir)) =>
       p_out.kind = "InvalidMediaPathError"
  /\ (p_op = "folder" /\ ~IsRelativeTo(p_candidate, GalleryDir)) =>
       p_out.kind = "InvalidFolderPathError"
  /\ (p_op = "media" /\ p_out.kind = "ok") =>
       /\ IsRelativeTo(p_out.value, GalleryDir)
       /\ \A i \in 1..Len(p_out.value) : ~IsDotDot(p_out.value[i])
  /\ (p_op = "folder" /\ p_out.kind = "ok") =>
       \A i \in 1..Len(p_out.value) : ~IsDotDot(p_out.value[i])

\* A path with ".." that reaches a file that exists outside the root was
\* refused as invalid.
C13_Witness ==
  /\ p_op = "media"
  /\ p_candidate = OutsideFile
  /\ p_found = "file"
  /\ \E i \in 1..Len(p_arg) : p_arg[i] = "."
  /\ p_out.kind = "InvalidMediaPathError"

\* --------------------------------------------------- scan and build: claims
\* The greatest mtime among the images of the folder rel_dir that a scan finds.
LatestIn(rel_dir, recursive) ==
  CHOOSE m \in 1..MaxMtime :
    /\ \E p \in Present(recursive) : ImageDir(p) = rel_dir /\ files[p] = m
    /\ \A p \in Present(recursive) : ImageDir(p) = rel_dir => files[p] <= m

C15_CoverIsGreatestKey ==
  b_op \in {"build", "rescan"} =>
    \A i \in 1..Len(b_out.value.folders_ordered) :
      LET f == b_out.value.folders_ordered[i]
      IN /\ f.cover.rel_path \in Present(b_args[1])
         /\ f.cover = ImageOf(f.cover.rel_path)
         /\ ImageDir(f.cover.rel_path) = f.rel_dir
         /\ \A p \in Present(b_args[1]) :
              (ImageDir(p) = f.rel_dir /\ p # f.cover.rel_path) =>
                \/ StrLess(BaseName(p), f.cover.name)
                \/ BaseName(p) = f.cover.name /\ StrLess(p, f.cover.rel_path)

\* A folder of two images whose cover is the older one, and the scan met the
\* newer one first.
C15_Witness ==
  /\ b_op = "build"
  /\ \E i \in 1..Len(b_out.value.folders_ordered) :
       LET f == b_out.value.folders_ordered[i]
       IN /\ f.image_count = 2
          /\ f.cover.mtime < f.latest_mtime
          /\ \E j, k \in 1..Len(b_args[2]) :
               /\ j < k
               /\ b_args[2][k] = f.cover.rel_path
               /\ ImageDir(b_args[2][j]) = f.rel_dir

\* The images of a list are in non-increasing order of the mtime of their file.
NewestFirst(images) ==
  \A i, j \in 1..Len(images) :
    i < j => files[images[i].rel_path] >= files[images[j].rel_path]

C17_ListingsAreLexicographic ==
  (b_op \in {"list_images", "list_folder_images"} /\ b_out.kind = "ok") =>
    \A i, j \in 1..Len(b_out.value) :
      i < j => StrLess(b_out.value[i].rel_path, b_out.value[j].rel_path)

\* The pages 1..n of the folder list f, one after the other.
RECURSIVE PagesConcat(_, _, _)
PagesConcat(f, n, page_size) ==
  IF n = 0 THEN <<>>
  ELSE PagesConcat(f, n - 1, page_size)
         \o FolderCoverPage([folders_ordered |-> f], n, page_size).items

\* C18: for page >= 1 and page_size >= 1 list_folder_covers returns the number
\* of folders as total, the least number of pages of page_size that hold them
\* as total_pages (0 for no folder), and as items the folders at the positions
\* (page-1)*page_size .. page*page_size-1 of the folder list that exist (none
\* past the end); the pages 1..total_pages one after the other are the folder
\* list; page < 1 or page_size < 1 fails with ValueError.
C18_Paging ==
  b_op = "list_folder_covers" =>
    /\ b_out.kind = "ValueError" <=> (b_args[1] < 1 \/ b_args[2] < 1)
    /\ b_out.kind \in {"ok", "ValueError"}
    /\ b_out.kind = "ok" =>
         LET page == b_args[1]
             page_size == b_args[2]
             f == b_args[3]
             r == b_out.value
             start == (page - 1) * page_size
         IN /\ r.total = Len(f)
            /\ r.page = page /\ r.page_size = page_size
            /\ r.total_pages * page_size >= r.total
            /\ r.total_pages >= 0
            /\ r.total_pages > 0 => (r.total_pages - 1) * page_size < r.total
            /\ \A i \in 1..page_size :
                 IF start + i <= Len(f)
                   THEN i <= Len(r.items) /\ r.items[i] = f[start + i]
                   ELSE i > Len(r.items)
            /\ Len(r.items) <= page_size
            /\ PagesConcat(f, r.total_pages, page_size) = f

\* The second and last page of three folders, two to a page.
C18_Witness ==
  /\ b_op = "list_folder_covers"
  /\ b_out.kind = "ok"
  /\ b_args[1] = 2 /\ b_args[2] = 2
  /\ b_out.value.total = 3
  /\ b_out.value.total_pages = 2
  /\ Len(b_out.value.items) = 1

\* The lists l1 and l2 hold the same images with the same mtime at every
\* position, and differ at most in the order of images that share an mtime.
SameUpToTies(l1, l2) ==
  /\ Len(l1) = Len(l2)
  /\ {l1[i] : i \in 1..Len(l1)} = {l2[i] : i \in 1..Len(l2)}
  /\ \A i \in 1..Len(l1) :
       /\ l1[i].mtime = l2[i].mtime
       /\ (\A j \in 1..Len(l1) : j # i => l1[j].mtime # l1[i].mtime) => l1[i] = l2[i]

\* C19 as stated: two builds over the same unchanged files yield identical
\* snapshots, the order of images that share an mtime included.
C19_RescanIdentical ==
  b_op = "rescan" => b_out.value = b_args[3]

\* C19, amended: two builds over the same unchanged files yield the same
\* folder list (order, cover, count and latest mtime of every folder) and
\* the same images in every list, in the same order but for images that share
\* an mtime: those come in the order in which the directory iteration of the
\* build yielded them, so that the two snapshots are identical when the two
\* iterations yield the files in the same order.
C19_RescanIdenticalUpToTies ==
  b_op = "rescan" =>
    LET first == b_args[3]
        second == b_out.value
    IN /\ first.folders_ordered = second.folders_ordered
       /\ DOMAIN first.images_by_folder = DOMAIN second.images_by_folder
       /\ SameUpToTies(first.images_ordered, second.images_ordered)
       /\ \A d \in DOMAIN first.images_by_folder :
            SameUpToTies(first.images_by_folder[d], second.images_by_folder[d])
       /\ b_args[2] = b_args[4] => first = second

\* Two builds of the same files, in two folders or more, whose image lists
\* differ.
C19_Witness ==
  /\ b_op = "rescan"
  /\ Len(b_out.value.folders_ordered) >= 2
  /\ b_out.value.images_ordered # b_args[3].images_ordered
  /\ \E d \in DOMAIN b_out.value.images_by_folder :
       b_out.value.images_by_folder[d] # b_args[3].images_by_folder[d]

\* ------------------------------------------------------- index: publication
\* C20: the snapshot, the initialized flag and the two timestamps change only
\* together, in the step that ends a successful build with the lock taken:
\* that step stores the snapshot the build scanned, sets the flag and both
\* timestamps to the time of the step and clears the building flag.  In every
\* state initialized holds iff both timestamps are set, and the snapshot is
\* the initial empty one iff initialized does not hold.  A reader takes its
\* snapshot in one step, with the lock free, so it is the published one, whole
\* and with the timestamps of its own build.
C20_PublishedTogether ==
  /\ [](/\ initialized <=> last_built_at # NoTime
        /\ initialized <=> last_built_monotonic # NoTime
        /\ initialized <=> snapshot # EmptySnap)
  /\ [][/\ Published' # Published =>
             /\ building /\ ~building'
             /\ lock' = NoOwner
             /\ initialized'
             /\ last_built_at' = now /\ last_built_monotonic' = now
             /\ \/ \E t \in Threads :
                     /\ pc[t] = "bs_fin" /\ CanAcquire(t)
                     /\ l_snapshot[t] # NoSnap /\ snapshot' = l_snapshot[t]
                \/ \E w \in Workers :
                     /\ wpc[w] = "fin" /\ CanAcquire(WorkerId(w))
                     /\ w_snapshot[w] # NoSnap /\ snapshot' = w_snapshot[w]
        /\ \A t \in Threads :
             (result'[t] # result[t] /\ result'[t] # NoSnap) =>
               /\ result'[t] = snapshot
               /\ Published' = Published
               /\ lock \in {NoOwner, t}
               /\ result'[t] = EmptySnap <=> ~initialized]_vars

\* A build has replaced the snapshot and the timestamps of an earlier build,
\* and a reader has returned with the new snapshot.
C20_Witness ==
  /\ preBuild[2]
  /\ preBuild[1] # snapshot
  /\ preBuild[4] # last_built_monotonic
  /\ \E t \in Threads : pc[t] = "done" /\ op[t] = "read" /\ result[t] = snapshot

\* ------------------------------------------------ index: claims, continued
\* The calls that go through _trigger_background_build: warmup_async, and a
\* read without refresh whose check met an initialized index.
IsTriggerCall(t) ==
  \/ op[t] = "warmup_async"
  \/ op[t] = "read" /\ ~refresh[t] /\ chk[t] \in {"fresh", "stale"}

\* C21: warmup_async and a read without refresh on an initialized index never
\* enter _build_sync, never wait on the condition and run no scan; the step
\* of _trigger_background_build that finds the building flag set claims no
\* build, starts no thread, leaves the flag as it is and returns.
C21_TriggerNeverBlocks ==
  /\ [](\A t \in Threads :
          IsTriggerCall(t) =>
            /\ ~waited[t] /\ ~scanned[t] /\ claimed[t] <= 1
            /\ pc[t] \in {"tb", "tb_start", "ret", "done"})
  /\ [][\A t \in Threads :
          (pc[t] = "tb" /\ pc'[t] # "tb" /\ building) =>
            /\ building'
            /\ claimed'[t] = claimed[t]
            /\ wpc' = wpc
            /\ pc'[t] = IF op[t] = "read" THEN "ret" ELSE "done"]_vars

\* A warmup_async that found a build in flight has returned without a build
\* of its own, the build still running.
C21_Witness ==
  \E t \in Threads :
    /\ op[t] = "warmup_async" /\ pc[t] = "done"
    /\ claimed[t] = 0
    /\ building

\* C22 as stated: a read without refresh that meets the index uninitialized
\* while the warmup build is in flight may return the initial empty snapshot:
\* where such a reader is inside _ensure_snapshot and the index is still
\* uninitialized, the step that returns self._snapshot is one it can take.
C22_RacingReadMayReturnEmpty ==
  \A t \in Threads :
    (/\ Settled
     /\ op[t] = "read" /\ ~refresh[t] /\ chk[t] = "uninit"
     /\ pc[t] \in {"bs", "bs_wait"}
     /\ building /\ ~initialized) =>
      ENABLED ReturnSnapshot(t)

\* C22, amended: a read without refresh that meets the index uninitialized
\* goes through _build_sync: it waits while a build (the warmup) is in flight,
\* then runs a scan of its own and returns the snapshot that is current after
\* it, or raises if its scan fails.  No read returns the initial empty
\* snapshot.
C22_RacingReadBuildsItself ==
  \A t \in Threads :
    /\ (op[t] = "read" /\ ~refresh[t] /\ chk[t] = "uninit") =>
         /\ pc[t] \in {"bs", "bs_wait", "bs_scan", "bs_fin", "ret", "done", "raised"}
         /\ pc[t] \in {"ret", "done"} => scanned[t] /\ initialized
         /\ pc[t] = "done" => result[t] >= callFs[t]
    /\ (op[t] = "read" /\ pc[t] = "done") => result[t] # EmptySnap

\* A read that met the index uninitialized waited for the warmup build and
\* returned, after its own scan, a snapshot that is not the empty one.
C22_Witness ==
  \E t \in Threads :
    /\ op[t] = "read" /\ ~refresh[t] /\ chk[t] = "uninit"
    /\ waited[t] /\ scanned[t]
    /\ pc[t] = "done" /\ result[t] # EmptySnap

\* C27: a read without refresh claims a background build only if the snapshot
\* is expired (its age at least the TTL) at the step that claims the build.
\* (The index cannot change between that step and the start of the thread,
\* and its age only grows.)
C27_ClaimOnlyIfStillExpired ==
  \A t \in Threads :
    (op[t] = "read" /\ ~refresh[t] /\ pc[t] = "tb_start") =>
      (now - last_built_monotonic) >= TTL

\* C29: once initialized holds it holds for ever; the monotonic timestamp of
\* the build never decreases; and the snapshot is never replaced by one
\* scanned from an earlier state of the directory: a build in progress was
\* claimed after the current snapshot was published, so its scan is the later
\* one.
C29_IndexMovesForward ==
  /\ [][/\ initialized => initialized'
        /\ last_built_monotonic' >= last_built_monotonic
        /\ snapshot' >= snapshot]_vars
  /\ [](/\ \A t \in Threads :
             (pc[t] = "bs_fin" /\ l_snapshot[t] # NoSnap) => l_snapshot[t] >= snapshot
        /\ \A w \in Workers :
             (wpc[w] = "fin" /\ w_snapshot[w] # NoSnap) => w_snapshot[w] >= snapshot)

\* A build has replaced the snapshot of an earlier build by one scanned from
\* a later state of the directory, at a later time.
C29_Witness ==
  /\ ~building
  /\ preBuild[2]
  /\ preBuild[1] < snapshot
  /\ preBuild[4] < last_built_monotonic

\* C30: under SpecLive (every thread that can step does, every scan ends, the
\* requests are finitely many) a building flag that is set is cleared, and a
\* read or refresh_sync call that has begun returns or raises; and in every
\* state a thread waiting on the condition has a build in progress to wake it:
\* the flag is set and a builder, which will notify, is on its way.
C30_BuildsAndCallsTerminate ==
  /\ building ~> ~building
  /\ \A t \in Threads :
       (op[t] \in {"read", "refresh_sync"} /\ pc[t] # "idle") ~> Returned(t)
  /\ [](\A t \in Threads : pc[t] = "bs_wait" => building /\ BuildsInProgress = 1)

\* Both request threads wait on the condition for a background build.
C30_Witness ==
  /\ \A t \in Threads : pc[t] = "bs_wait"
  /\ \E w \in Workers : wpc[w] \in {"scan", "fin"}
  /\ building

\* ------------------------------------------------ thumbnails: claims, continued
\* The positions of ensure_thumbnail inside the `with lock:` block.
InKeyLock == {"recheck", "mkdir", "encode", "save", "rename"}

\* C23: the guard of the lock table is held only by a call that is inside
\* _get_key_lock, which can always go on and release it, so never during
\* decode, save or rename; a key's lock is held by at most one call, one that
\* is inside the `with lock:` block for that very key, and a call holds no
\* other lock; a call at _get_key_lock can enter unless another is inside it,
\* and a call at `with lock:` can go on unless a call for the same fingerprint
\* holds the lock, whatever calls for other fingerprints are doing.
C23_OtherFingerprintsNotBlocked ==
  /\ \A t \in Threads : locks_guard = t <=> tpc[t] = "inguard"
  /\ locks_guard \in Threads \cup {NoOwner}
  /\ \A h \in key_owner : tpc[h[2]] \in InKeyLock /\ t_key[h[2]] = h[1]
  /\ \A t \in Threads : tpc[t] \in InKeyLock => <<t_key[t], t>> \in key_owner
  /\ \A h1, h2 \in key_owner : h1[1] = h2[1] => h1 = h2
  /\ \A t \in Threads :
       /\ (ThumbSettled /\ tpc[t] = "inguard") => ENABLED GetKeyLockInsert(t)
       /\ (/\ ThumbSettled
           /\ tpc[t] = "getlock"
           /\ \A u \in Threads : tpc[u] # "inguard") => ENABLED GetKeyLock(t)
       /\ (/\ ThumbSettled
           /\ tpc[t] = "acquire"
           /\ \A u \in Threads \ {t} : tpc[u] \in InKeyLock => t_key[u] # t_key[t]) =>
            ENABLED AcquireKeyLock(t)

\* Two calls for two fingerprints generate at the same time, each under the
\* lock of its own fingerprint.
C23_Witness ==
  \E t, u \in Threads :
    /\ t # u
    /\ t_key[t] # t_key[u]
    /\ tpc[t] \in {"encode", "save", "rename"}
    /\ tpc[u] \in {"encode", "save", "rename"}

\* C24: when a call of ensure_thumbnail has raised after it had its cache
\* key, no call holds the lock of that key, there is no temporary file of the
\* key and no file at its cache path; in every state a temporary file belongs
\* to a call that is writing it under the lock of its key; and the next call
\* to pass the check under that lock, finding no cache file, goes on to
\* generate.
C24_FailureLeavesNoResidue ==
  /\ [](/\ \A t \in Threads :
             (tpc[t] = "t_raised" /\ t_key[t] # NoKey) =>
               /\ ~\E h \in key_owner : h[1] = t_key[t]
               /\ ~\E f \in temp : f[1] = t_key[t]
               /\ ~CacheExists(t_key[t])
        /\ \A f \in temp :
             \E t \in Threads :
               tpc[t] \in {"save", "rename"} /\ t_key[t] = f[1] /\ <<f[1], t>> \in key_owner)
  /\ [][\A u \in Threads :
          (tpc[u] = "recheck" /\ tpc'[u] # "recheck" /\ Count(fails, t_key[u]) > 0
             /\ ~CacheExists(t_key[u])) => tpc'[u] = "mkdir"]_vars

\* A call has generated the thumbnail of a fingerprint for which a generation
\* had failed while this call was waiting for the lock or before it began.
C24_Witness ==
  \E t \in Threads :
    /\ tpc[t] = "t_done" /\ generated[t]
    /\ Count(fails, t_key[t]) >= 1

\* C25: every file at a cache path is a complete thumbnail; a file appears
\* at a cache path only in the step that renames onto it the temporary file
\* of the same key, completely written, by the call that holds the lock of
\* the key; a call that has returned a path, with or without the lock, has
\* returned one where a complete file is; and a file at a cache path is never
\* changed or removed.
C25_CacheFilesComplete ==
  /\ [](/\ \A f \in cache : f[3]
        /\ \A t \in Threads :
             tpc[t] = "t_done" =>
               /\ t_result[t] = CachePath(t_key[t])
               /\ \E f \in cache : f[1] = t_key[t] /\ f[3])
  /\ [][/\ cache \subseteq cache'
        /\ \A f \in cache' \ cache :
             /\ f \in temp /\ f \notin temp'
             /\ f[3]
             /\ ~CacheExists(f[1])
             /\ \E t \in Threads :
                  tpc[t] = "rename" /\ t_key[t] = f[1] /\ <<f[1], t>> \in key_owner]_vars

\* A call has returned a cached path on the fast path, without the lock,
\* while another call is part-way through writing a temporary file.
C25_Witness ==
  \E t, u \in Threads :
    /\ tpc[t] = "t_done" /\ ~tookLock[t]
    /\ tpc[u] = "save"
    /\ \E f \in temp : f[1] = t_key[u] /\ ~f[3]

\* ------------------------------------------ scan and build: claims, continued
\* The elements of a sequence.
Range(seq) == {seq[i] : i \in 1..Len(seq)}

\* C26: in every snapshot the folders of the folder list are distinct and are
\* the keys of the folder-to-images map; the image list of a folder is not
\* empty and has no image twice, image_count is its length, latest_mtime the
\* greatest mtime in it and the cover one of its images; the global image
\* list has no image twice, and an image is in the list of a folder iff it is
\* in the global list and the folder is its parent directory.
C26_SnapshotConsistent ==
  b_op \in {"build", "rescan"} =>
    LET snap == b_out.value
        f == snap.folders_ordered
        by == snap.images_by_folder
        all == snap.images_ordered
    IN /\ {f[i].rel_dir : i \in 1..Len(f)} = DOMAIN by
       /\ \A i, j \in 1..Len(f) : f[i].rel_dir = f[j].rel_dir => i = j
       /\ \A i \in 1..Len(f) :
            LET l == by[f[i].rel_dir]
            IN /\ Len(l) >= 1
               /\ f[i].image_count = Len(l)
               /\ \E k \in 1..Len(l) : l[k].mtime = f[i].latest_mtime
               /\ \A k \in 1..Len(l) : l[k].mtime <= f[i].latest_mtime
               /\ f[i].cover \in Range(l)
       /\ \A i, j \in 1..Len(all) : all[i].rel_path = all[j].rel_path => i = j
       /\ \A d \in DOMAIN by :
            /\ \A i, j \in 1..Len(by[d]) : by[d][i].rel_path = by[d][j].rel_path => i = j
            /\ Range(by[d]) = {x \in Range(all) : ImageDir(x.rel_path) = d}
       /\ \A x \in Range(all) : ImageDir(x.rel_path) \in DOMAIN by

\* A snapshot of two folders or more, one of them with two images or more.
C26_Witness ==
  /\ b_op = "build"
  /\ Len(b_out.value.folders_ordered) >= 2
  /\ \E i \in 1..Len(b_out.value.folders_ordered) :
       b_out.value.folders_ordered[i].image_count >= 2
  /\ Len(b_out.value.images_ordered) >= 4

\* ------------------------------------------------ thumbnails: source version
\* C28: the thumbnail written for a cache key is decoded from the version of
\* the source whose size and mtime are in the key: at the step that opens and
\* decodes the source, its size and mtime are those the call read with stat().
C28_ThumbnailMatchesFingerprint ==
  [][\A t \in Threads :
       (tpc[t] = "encode" /\ tpc'[t] = "save") =>
         t_stat[t] = <<src.size, src.mtime>>]_vars

\* ------------------------------------------ index: argument and path errors
\* C31: a list_folder_covers call with page < 1 or page_size < 1, and a
\* list_folder_images call whose path resolves outside the root or to
\* something that is not a directory, raise in the step in which they begin:
\* that step starts no build and leaves the lock, the snapshot, the flags, the
\* timestamps and the background threads as they were, whatever the refresh
\* argument and the state of the index; the thread has claimed, scanned and
\* waited for nothing; and a call that has raised does nothing more than leave.
C31_ArgumentErrorsTouchNothing ==
  /\ [][\A t \in Threads :
          (pc[t] = "idle" /\ pc'[t] # "idle" /\ op'[t] = "read") =>
            LET badPage == /\ b_op = "none"
                           /\ b_op' = "list_folder_covers"
                           /\ (b_args'[1] < 1 \/ b_args'[2] < 1)
                badPath == /\ p_op = "none"
                           /\ p_op' = "folder"
                           /\ (~IsRelativeTo(p_candidate', GalleryDir) \/ p_found' # "dir")
            IN  (badPage \/ badPath) =>
                  /\ pc'[t] = "raised"
                  /\ UNCHANGED <<lock, snapshot, initialized, building,
                                 last_built_at, last_built_monotonic>>
                  /\ UNCHANGED <<wpc, w_snapshot, preBuild>>
                  /\ claimed'[t] = 0 /\ ~scanned'[t] /\ ~waited'[t]
                  /\ chk'[t] = "none" /\ l_snapshot'[t] = NoSnap
                  /\ badPage => b_out'.kind = "ValueError"
                  /\ badPath => p_out'.kind \in {"InvalidFolderPathError", "FileNotFoundError"}]_vars
  /\ [][\A t \in Threads :
          pc[t] = "raised" =>
            \/ pc'[t] = "raised"
            \/ pc'[t] = "idle" /\ UNCHANGED <<indexVars, workerVars>>]_vars

\* A list_folder_images call with refresh=true and a path that leaves the root
\* has raised while the snapshot is expired and no build runs; a
\* list_folder_covers call before it was refused for its page.
C31_Witness ==
  \E t \in Threads :
    /\ pc[t] = "raised"
    /\ op[t] = "read"
    /\ refresh[t]
    /\ claimed[t] = 0
    /\ p_op = "folder"
    /\ p_out.kind = "InvalidFolderPathError"
    /\ b_op = "list_folder_covers"
    /\ b_out.kind = "ValueError"
    /\ initialized
    /\ IsExpiredLocked
    /\ ~building

====
